---- MODULE Spec2Model ----
(***************************************************************************)
(* conda-pypi-test: the three coordinators of the repository and the       *)
(* functions they call.                                                    *)
(*                                                                         *)
(*   generate.py     generate_repodata / get_repodata_entry                *)
(*   build_cache.py  process_requirements / resolve_requirement            *)
(*   discover.py     discover_from_names_file / _fetch_one                 *)
(*                                                                         *)
(* One run executes one of the three programs; Init chooses which, and the *)
(* variables of the other two stay in their "off" state.                   *)
(***************************************************************************)
EXTENDS Integers, Sequences, FiniteSets, TLC

\* ------------------------------------------------------------------ bounds
\* Longest packages.txt / requirements list / names file of a run.
MaxPkgs == 2
\* Largest --concurrency / --workers value of a run.
MaxConc == 2
\* Longest packages.txt of a run that records every answer of the remote.
MaxRetryPkgs == 1
\* Longest packages.txt of a run with more than one batch.
MaxBatchPkgs == 11
\* Number of calls of load_grayskull_mapping in one process.
MaxCalls == 2
\* Longest name handed to normalize_name, normalize_package_name and
\* map_package_name.
MaxNameLen == 3
MaxFiles == 2
MaxDeps == 2
MaxWheels == 3
MaxLines == 3

\* --------------------------------------------------------------- characters
\* Strings whose content matters (names, versions, keys) are sequences of
\* one-character strings, compared by code point as Python compares str.
Ord(c) ==
  CASE c = "-" -> 45 [] c = "." -> 46
    [] c = "0" -> 48 [] c = "1" -> 49 [] c = "2" -> 50 [] c = "3" -> 51
    [] c = "9" -> 57
    [] c = "A" -> 65 [] c = "B" -> 66
    [] c = "_" -> 95
    [] c = "a" -> 97 [] c = "b" -> 98 [] c = "e" -> 101 [] c = "n" -> 110
    [] c = "o" -> 111 [] c = "p" -> 112 [] c = "s" -> 115
    [] c = "t" -> 116 [] c = "y" -> 121

\* Lower that leaves every character as it is.
Lower_Unchanged(c) == c

\* str.lower() on one character.
Lower(c) == CASE c = "A" -> "a" [] c = "B" -> "b" [] OTHER -> c

\* str.replace("_", "-") on one character.
ReplaceUnderscore(c) == IF c = "_" THEN "-" ELSE c

\* Python's str comparison s < t: the first differing code point decides, a
\* proper prefix is smaller.
RECURSIVE StrLess(_, _)
StrLess(s, t) ==
  IF t = <<>> THEN FALSE
  ELSE IF s = <<>> THEN TRUE
  ELSE IF Ord(Head(s)) # Ord(Head(t)) THEN Ord(Head(s)) < Ord(Head(t))
  ELSE StrLess(Tail(s), Tail(t))

\* ---------------------------------------------------------- name mapping
\* generate.normalize_name: name.lower().replace("_", "-")
normalize_name(name) ==
  [i \in 1..Len(name) |-> ReplaceUnderscore(Lower(name[i]))]

\* A loaded grayskull table: normalised PyPI name -> {"conda_name": ...}.
\* An entry is a function from field names to values, so that a missing
\* "conda_name" is the .get() default.
GrayskullTable ==
  [k \in {<<"a">>} |-> [f \in {"conda_name"} |-> <<"B", "_", "a">>]]

\* _MAPPING_CACHE is wrapped in a sequence, <<>> being None.  main_async has
\* awaited load_grayskull_mapping before generate_repodata runs, so the cache
\* then holds {} (the load failed) or the loaded table.
EmptyTable == [k \in {} |-> [f \in {} |-> <<>>]]
MappingCaches == {<<EmptyTable>>, <<GrayskullTable>>}

\* map_package_name that returns the table's destination name as it is.
map_package_name_raw(cache, pypi_name) ==
  LET mapping == IF cache = <<>> THEN EmptyTable ELSE cache[1]
      normalized == normalize_name(pypi_name)
  IN IF normalized \in DOMAIN mapping
       THEN IF "conda_name" \in DOMAIN mapping[normalized]
              THEN mapping[normalized]["conda_name"]
              ELSE normalized
       ELSE normalized

\* generate.map_package_name, with cache the value of _MAPPING_CACHE.
map_package_name(cache, pypi_name) ==
  LET mapping == IF cache = <<>> THEN EmptyTable ELSE cache[1]
      normalized == normalize_name(pypi_name)
  IN IF normalized \in DOMAIN mapping
       THEN normalize_name(
              IF "conda_name" \in DOMAIN mapping[normalized]
                THEN mapping[normalized]["conda_name"]
                ELSE normalized)
       ELSE normalized

\* ------------------------------------------------- PyPI JSON -> repodata
\* "py3_none_any_0", the build string of every entry.
Build ==
  <<"p", "y", "3", "_", "n", "o", "n", "e", "_", "a", "n", "y", "_", "0">>

NoEntry == [url |-> "", name |-> <<>>, version |-> <<>>, build |-> <<>>,
            subdir |-> "", noarch |-> ""]

\* Index of the first occurrence of sub in s, 0 when there is none
\* (str.find, counted from 1).
IndexOf(s, sub) ==
  LET at == {i \in 1..(Len(s) - Len(sub) + 1) :
               SubSeq(s, i, i + Len(sub) - 1) = sub}
  IN IF at = {} THEN 0 ELSE CHOOSE i \in at : \A j \in at : i <= j

\* sub in s
Contains(s, sub) == IndexOf(s, sub) # 0

IsSpace(c) == c \in {" ", "\t", "\n"}

\* str.strip()
Strip(s) ==
  LET solid == {i \in 1..Len(s) : ~IsSpace(s[i])}
  IN IF solid = {} THEN <<>>
     ELSE SubSeq(s, CHOOSE i \in solid : \A j \in solid : i <= j,
                    CHOOSE i \in solid : \A j \in solid : i >= j)

\* s.split(sep)[0]
BeforeFirst(s, sep) ==
  IF Contains(s, sep) THEN SubSeq(s, 1, IndexOf(s, sep) - 1) ELSE s

\* s.split(sep, 1)[1], for an s that contains sep
AfterFirst(s, sep) == SubSeq(s, IndexOf(s, sep) + Len(sep), Len(s))

\* s.split(c), c one character
RECURSIVE Split(_, _)
Split(s, c) ==
  IF Contains(s, <<c>>)
    THEN <<BeforeFirst(s, <<c>>)>> \o Split(AfterFirst(s, <<c>>), c)
    ELSE <<s>>

\* The characters of the class [a-zA-Z0-9._-] that the model uses.
NameClass ==
  {"a", "b", "e", "m", "n", "o", "r", "s", "t", "x", "A", "B",
   "0", "1", "2", "3", ".", "_", "-"}

\* Length of the match of ^([a-zA-Z0-9._-]+), 0 when there is no match.
RECURSIVE NamePrefixLen(_)
NamePrefixLen(s) ==
  IF s = <<>> \/ Head(s) \notin NameClass THEN 0
  ELSE 1 + NamePrefixLen(Tail(s))

\* generate.map_dependency_name: the leading name of the requirement is
\* replaced by its conda name (the first occurrence of the name in the
\* string is the match itself).
map_dependency_name(cache, pypi_dep) ==
  LET n == NamePrefixLen(pypi_dep)
  IN IF n = 0 THEN pypi_dep
     ELSE map_package_name(cache, SubSeq(pypi_dep, 1, n))
            \o SubSeq(pypi_dep, n + 1, Len(pypi_dep))

\* "extra"
ExtraWord == <<"e", "x", "t", "r", "a">>
\* "python "
PythonWord == <<"p", "y", "t", "h", "o", "n", " ">>

\* The loop over requires_dist: a dependency whose text contains "extra" is
\* left out, the others lose what follows the first ';' and are mapped.
RECURSIVE DependsOf(_, _)
DependsOf(cache, requires_dist) ==
  IF requires_dist = <<>> THEN <<>>
  ELSE LET dep == Head(requires_dist)
           rest == DependsOf(cache, Tail(requires_dist))
       IN IF Contains(dep, ExtraWord) THEN rest
          ELSE <<map_dependency_name(cache, Strip(BeforeFirst(dep, <<";">>)))>>
                 \o rest

\* depends_list: the dependencies, then "python <requires_python>" when
\* requires_python is neither None nor empty.
depends_list(cache, pypi_info) ==
  DependsOf(cache, pypi_info.requires_dist)
    \o (IF pypi_info.requires_python = <<>> THEN <<>>
        ELSE <<PythonWord \o pypi_info.requires_python>>)

\* The loop over urls without its break: the last bdist_wheel wins.
RECURSIVE FirstWheel_NoBreak(_, _)
FirstWheel_NoBreak(urls, i) ==
  IF i > Len(urls) THEN 0
  ELSE LET later == FirstWheel_NoBreak(urls, i + 1)
       IN IF later # 0 THEN later
          ELSE IF urls[i].packagetype = "bdist_wheel" THEN i ELSE 0

\* Index of the first element of urls whose packagetype is bdist_wheel, 0
\* when there is none (the for/break loop of pypi_to_repodata_whl_entry).
RECURSIVE FirstWheel(_, _)
FirstWheel(urls, i) ==
  IF i > Len(urls) THEN 0
  ELSE IF urls[i].packagetype = "bdist_wheel" THEN i
  ELSE FirstWheel(urls, i + 1)

\* generate.pypi_to_repodata_whl_entry.  kind is "entry" (the dict returned),
\* "none" (None returned: no wheel) or "raise" (pypi_data has no "info", so
\* pypi_info.get raises AttributeError).
pypi_to_repodata_whl_entry(cache, pypi_data) ==
  LET w == FirstWheel(pypi_data.urls, 1)
  IN IF w = 0 THEN [kind |-> "none", entry |-> NoEntry]
     ELSE IF pypi_data.info = <<>> THEN [kind |-> "raise", entry |-> NoEntry]
     ELSE [kind |-> "entry",
           entry |-> [url |-> pypi_data.urls[w].url,
                      record_version |-> 3,
                      name |-> map_package_name(cache, pypi_data.info[1].name),
                      version |-> pypi_data.info[1].version,
                      build |-> Build,
                      build_number |-> 0,
                      depends |-> depends_list(cache, pypi_data.info[1]),
                      sha256 |-> pypi_data.urls[w].sha256,
                      size |-> pypi_data.urls[w].size,
                      subdir |-> "noarch",
                      noarch |-> "python"]]

\* ------------------------------------------------------------ the remote
\* What https://pypi.org/pypi/{name}/{version}/json can answer for a request.
SdistFile ==
  [packagetype |-> "sdist", url |-> "sdist-url", filename |-> "a-1.tar.gz",
   sha256 |-> "sdist-sha256", size |-> 30]
WheelFile ==
  [packagetype |-> "bdist_wheel", url |-> "wheel-url",
   filename |-> "a-1-py3-none-any.whl", sha256 |-> "wheel-sha256",
   size |-> 10]
EmptyBody == [present |-> FALSE, info |-> <<>>, urls |-> <<>>]
WheelBody(req) ==
  [present |-> TRUE,
   info |-> <<[name |-> req.name, version |-> req.version,
               requires_dist |-> <<>>, requires_python |-> <<>>]>>,
   urls |-> <<SdistFile, WheelFile>>]
NoWheelBody(req) == [WheelBody(req) EXCEPT !.urls = <<SdistFile>>]
NoInfoBody(req) == [WheelBody(req) EXCEPT !.info = <<>>]
\* The release is recorded under another spelling of the requested version:
\* info.version is "1.0" for a request of "1".
OtherSpellingBody(req) ==
  [WheelBody(req) EXCEPT !.info[1].version = req.version \o <<".", "0">>]

\* error: "none", "timeout" (client.get raises httpx.TimeoutException) or
\* "json" (response.json() raises on an unparseable body).
Responses(req) ==
  {[error |-> "none", status |-> 200, body |-> b] :
     b \in {WheelBody(req), OtherSpellingBody(req), NoWheelBody(req),
            NoInfoBody(req), EmptyBody}}
  \cup {[error |-> "none", status |-> s, body |-> EmptyBody] :
          s \in {404, 429, 500}}
  \cup {[error |-> e, status |-> 200, body |-> EmptyBody] :
          e \in {"timeout", "json"}}

\* --------------------------------------------------- get_repodata_entry
\* max_retries off by one.
max_retries_plus_one == 3 + 1

\* The default of the max_retries parameter.
max_retries == 3

\* wait_time = 2 ** attempt
RECURSIVE wait_time(_)
wait_time(attempt) == IF attempt = 0 THEN 1 ELSE 2 * wait_time(attempt - 1)

\* response.raise_for_status() raises httpx.HTTPStatusError on 4xx and 5xx.
RaisesHTTPStatusError(resp) == resp.error = "none" /\ resp.status >= 400

\* The `if attempt < max_retries - 1` of the HTTPStatusError handler.
ShouldRetry(attempt) == attempt < max_retries - 1

NoneResult == [kind |-> "none", entry |-> NoEntry]
ExcResult == [kind |-> "exc", entry |-> NoEntry]
Pending == [kind |-> "pending", entry |-> NoEntry]

\* One pass through the try statement of get_repodata_entry's loop body after
\* client.get has answered with resp.  handler_raises: a statement of the
\* except clause that runs (its print) raises, and that exception leaves the
\* coroutine.  next is "return", "sleep" (asyncio.sleep(wait_time), then the
\* next iteration) or "raise".
HandleResponse(cache, attempt, resp, handler_raises) ==
  LET conv == pypi_to_repodata_whl_entry(cache, resp.body)
      raised == [next |-> "raise", result |-> ExcResult]
      none == [next |-> "return", result |-> NoneResult]
  IN IF resp.error = "timeout" THEN
       \* except Exception
       IF handler_raises THEN raised ELSE none
     ELSE IF RaisesHTTPStatusError(resp) THEN
       \* except httpx.HTTPStatusError
       IF handler_raises THEN raised
       ELSE IF ShouldRetry(attempt) THEN [next |-> "sleep", result |-> Pending]
       ELSE none
     ELSE IF resp.error = "json" THEN
       IF handler_raises THEN raised ELSE none
     ELSE IF ~resp.body.present THEN
       \* if not pypi_data: return None
       none
     ELSE IF conv.kind = "raise" THEN
       IF handler_raises THEN raised ELSE none
     ELSE [next |-> "return", result |-> conv]

\* ------------------------------------------------------------- state
VARIABLES
  \* generate.py
  packages,         \* the (name, version) list generate_repodata was given
  concurrency,      \* its concurrency argument
  MAPPING_CACHE,    \* the global _MAPPING_CACHE
  gmain,            \* where generate_repodata is
  batch_i,          \* i of `for i in range(0, len(packages), batch_size)`
  semaphore,        \* the value of the batch's asyncio.Semaphore
  tpc,              \* per package index: where its fetch_with_semaphore task is
  attempt,          \* per running task: the loop variable of get_repodata_entry
  elapsed,          \* per sleeping task: seconds since asyncio.sleep began
  inflight,         \* the client.get calls not yet answered: <<task, attempt>>
  result,           \* per task: what gather holds for it
  pkg_whls,         \* the dict, as its items in insertion order
  failed_packages,
  completed,
  repodata_output,  \* <<>>, or <<packages.whl as its items in order>>
  written,          \* the files of output_dir written so far
  files,            \* file name -> what the file holds, once written
  \* history of get_repodata_entry, kept by SpecRetry only
  response,         \* the answer the step just taken has handled, if any
  prior_transient,  \* per running task: every failed attempt was a 429 or 5xx
  \* build_cache.py
  requirements,     \* the requirement strings process_requirements was given
  bc_concurrency,   \* its concurrency argument
  bmain,            \* where process_requirements is
  bc_semaphore,     \* the value of its asyncio.Semaphore
  wpc,              \* per requirement index: where its worker task is
  in_progress,      \* the set in_progress
  found,
  missing,
  bc_completed,     \* the nonlocal completed
  cache_rows,       \* the urls that have a row in the cache table
  connection,       \* the result database connection: "open" or "closed"
  committed,        \* connection.commit() has run
  progress_task,    \* "running", "cancelled"
  reported,         \* the last [progress] line: <<completed, current>>
  \* discover.py
  names,            \* the lines of the names file
  workers,          \* max_workers of the ThreadPoolExecutor
  pure_only,
  dmain,            \* where discover_from_names_file is
  fpc,              \* per name index: where its future is
  outcome,          \* per finished future: what _fetch_one returned or raised
  done,
  results,
  \* the name functions and load_grayskull_mapping
  lpc,              \* per call of load_grayskull_mapping: where it is
  lret,             \* per call: what it returned
  fetches,          \* the client.get calls for GRAYSKULL_MAPPING_URL so far
  applied           \* the last call of a name function: argument and result

genInput == <<packages, concurrency, MAPPING_CACHE>>
genTasks == <<semaphore, tpc, attempt, elapsed, inflight, result>>
genCollected == <<pkg_whls, failed_packages, completed>>
genOutput == <<repodata_output, written, files>>
genHistory == <<response, prior_transient>>
genVars == <<genInput, gmain, batch_i, genTasks, genCollected, genOutput,
             genHistory>>

cacheInput == <<requirements, bc_concurrency>>
cacheCounters == <<found, missing, bc_completed>>
cacheVars == <<cacheInput, bmain, bc_semaphore, wpc, in_progress,
               cacheCounters, cache_rows, connection, committed, progress_task,
               reported>>

discInput == <<names, workers, pure_only>>
discVars == <<discInput, dmain, fpc, outcome, done, results>>

loadVars == <<lpc, lret, fetches, applied>>

vars == <<genVars, cacheVars, discVars, loadVars>>

\* The sequences over S of length 1..n.
RECURSIVE SeqsUpTo(_, _)
SeqsUpTo(S, n) ==
  IF n = 0 THEN {}
  ELSE LET shorter == SeqsUpTo(S, n - 1)
       IN {<<x>> : x \in S} \cup shorter
          \cup {Append(q, x) : q \in shorter, x \in S}

\* ------------------------------------------------- generate_repodata
\* The requests a packages.txt of the model can hold.
Requests ==
  {[name |-> <<"B", "_", "a">>, version |-> <<"1">>],
   [name |-> <<"b", "-", "a">>, version |-> <<"1">>],
   [name |-> <<"a">>, version |-> <<"1">>],
   [name |-> <<"a">>, version |-> <<"2">>]}

Tasks == 1..Len(packages)

\* batch_size = concurrency * 10
batch_size == concurrency * 10

\* Batch with the slice starting one element early.
Batch_Overlapping == {t \in Tasks : batch_i <= t /\ t <= batch_i + batch_size}

\* The indices of packages[i:i + batch_size].
Batch == {t \in Tasks : batch_i < t /\ t <= batch_i + batch_size}

NoResponse ==
  [task |-> 0, attempt |-> 0,
   resp |-> [error |-> "", status |-> 0, body |-> EmptyBody],
   handler_raised |-> FALSE, prior_transient |-> TRUE]

\* f"{conda_name}-{version}-py3_none_any_0"
EntryKey(conda_name, version) ==
  conda_name \o <<"-">> \o version \o <<"-">> \o Build

\* f"{name}=={version}"
FailedName(pkg) == pkg.name \o <<"=", "=">> \o pkg.version

\* d[key] = value on a dict kept as its items in insertion order: a key that
\* is present keeps its position and gets the new value.
DictSet(items, key, value) ==
  IF \E j \in 1..Len(items) : items[j].key = key
    THEN [j \in 1..Len(items) |->
            IF items[j].key = key THEN [key |-> key, value |-> value]
            ELSE items[j]]
    ELSE Append(items, [key |-> key, value |-> value])

RECURSIVE InsertSorted(_, _)
InsertSorted(items, item) ==
  IF items = <<>> THEN <<item>>
  ELSE IF StrLess(item.key, Head(items).key) THEN <<item>> \o items
  ELSE <<Head(items)>> \o InsertSorted(Tail(items), item)

\* sorted(pkg_whls.items()): the keys of a dict are distinct, so the key
\* decides every comparison of two items.
RECURSIVE SortedItems(_)
SortedItems(items) ==
  IF items = <<>> THEN <<>>
  ELSE InsertSorted(SortedItems(Tail(items)), Head(items))

\* SemaphoreFree without the gate: acquire never waits.
SemaphoreFree_Ungated(value) == TRUE

\* asyncio.Semaphore.acquire returns at once when the value is positive.
SemaphoreFree(value) == value > 0

\* return_exceptions=True of the asyncio.gather call.
return_exceptions == TRUE

\* generate_repodata has been called with some packages list.
GenStart(maxlen) ==
  /\ packages \in SeqsUpTo(Requests, maxlen)
  /\ concurrency \in 1..MaxConc
  /\ MAPPING_CACHE \in MappingCaches
  /\ gmain = "batch"

\* generate.py is not the program that runs.
GenOff ==
  /\ packages = <<>>
  /\ concurrency = 1
  /\ MAPPING_CACHE = <<>>
  /\ gmain = "off"

\* The locals of generate_repodata before its batch loop.
GenLocals ==
  /\ batch_i = 0
  /\ semaphore = 0
  /\ tpc = [t \in Tasks |-> "new"]
  /\ attempt = [t \in Tasks |-> 0]
  /\ elapsed = [t \in Tasks |-> 0]
  /\ inflight = {}
  /\ result = [t \in Tasks |-> Pending]
  /\ pkg_whls = <<>>
  /\ failed_packages = <<>>
  /\ completed = 0
  /\ repodata_output = <<>>
  /\ written = {}
  /\ files = <<>>
  /\ response = NoResponse
  /\ prior_transient = [t \in Tasks |-> TRUE]

\* The top of the batch loop: a fresh semaphore, one task per element of
\* the batch, and gather awaits them.
StartBatch ==
  /\ gmain = "batch"
  /\ gmain' = "gather"
  /\ semaphore' = concurrency
  /\ tpc' = [t \in Tasks |-> IF t \in Batch THEN "waiting" ELSE tpc[t]]
  /\ UNCHANGED <<genInput, batch_i, attempt, elapsed, inflight, result,
                 genCollected, genOutput>>

\* `async with semaphore:` is entered and the first client.get is issued.
Acquire(t) ==
  /\ gmain = "gather"
  /\ tpc[t] = "waiting"
  /\ SemaphoreFree(semaphore)
  /\ semaphore' = semaphore - 1
  /\ tpc' = [tpc EXCEPT ![t] = "fetching"]
  /\ inflight' = inflight \cup {<<t, attempt[t]>>}
  /\ UNCHANGED <<genInput, gmain, batch_i, attempt, elapsed, result,
                 genCollected, genOutput>>

\* client.get of task t is answered with resp and the coroutine runs to its
\* next await: asyncio.sleep, or the end of fetch_with_semaphore (which
\* leaves the `async with` and releases the semaphore).
FetchReturnWith(t, resp, handler_raises) ==
  /\ gmain = "gather"
  /\ tpc[t] = "fetching"
  /\ LET h == HandleResponse(MAPPING_CACHE, attempt[t], resp, handler_raises)
     IN /\ inflight' = inflight \ {<<t, attempt[t]>>}
        /\ IF h.next = "sleep"
             THEN /\ tpc' = [tpc EXCEPT ![t] = "sleeping"]
                  /\ elapsed' = [elapsed EXCEPT ![t] = 0]
                  /\ UNCHANGED <<semaphore, result, attempt>>
             ELSE /\ tpc' = [tpc EXCEPT ![t] = "done"]
                  /\ result' = [result EXCEPT ![t] = h.result]
                  /\ semaphore' = semaphore + 1
                  /\ attempt' = [attempt EXCEPT ![t] = 0]
                  /\ UNCHANGED elapsed
  /\ UNCHANGED <<genInput, gmain, batch_i, genCollected, genOutput>>

FetchReturn(t) ==
  \E resp \in Responses(packages[t]), handler_raises \in BOOLEAN :
    FetchReturnWith(t, resp, handler_raises)

\* One second passes for the tasks inside asyncio.sleep (a task that has
\* slept its wait_time is no longer counted).
Tick ==
  /\ gmain = "gather"
  /\ \E t \in Tasks : tpc[t] = "sleeping" /\ elapsed[t] < wait_time(attempt[t])
  /\ elapsed' = [t \in Tasks |->
                   IF tpc[t] = "sleeping" /\ elapsed[t] < wait_time(attempt[t])
                     THEN elapsed[t] + 1 ELSE elapsed[t]]
  /\ UNCHANGED <<genInput, gmain, batch_i, semaphore, tpc, attempt, inflight,
                 result, genCollected, genOutput>>

\* SleepOver with the backoff not awaited: the next attempt starts at once.
SleepOver_NotAwaited(slept, attempt_) == TRUE

\* asyncio.sleep(wait_time) returns once wait_time seconds have passed.
SleepOver(slept, attempt_) == slept >= wait_time(attempt_)

\* The sleep of task t returns; the next iteration of the for loop issues
\* the next client.get, or range(max_retries) is exhausted and the function
\* falls through to its last `return None`.
Wake(t) ==
  /\ gmain = "gather"
  /\ tpc[t] = "sleeping"
  /\ SleepOver(elapsed[t], attempt[t])
  /\ elapsed' = [elapsed EXCEPT ![t] = 0]
  /\ IF attempt[t] + 1 < max_retries
       THEN /\ tpc' = [tpc EXCEPT ![t] = "fetching"]
            /\ attempt' = [attempt EXCEPT ![t] = @ + 1]
            /\ inflight' = inflight \cup {<<t, attempt[t] + 1>>}
            /\ UNCHANGED <<semaphore, result>>
       ELSE /\ tpc' = [tpc EXCEPT ![t] = "done"]
            /\ attempt' = [attempt EXCEPT ![t] = 0]
            /\ result' = [result EXCEPT ![t] = NoneResult]
            /\ semaphore' = semaphore + 1
            /\ UNCHANGED inflight
  /\ UNCHANGED <<genInput, gmain, batch_i, genCollected, genOutput>>

\* One iteration of `for result in batch_results`, on the record
\* [pkg_whls, failed_packages, completed].
CollectOne(acc, pkg, res) ==
  IF res.kind = "exc"
    THEN \* isinstance(result, Exception): completed += 1; continue
         [acc EXCEPT !.completed = @ + 1]
  ELSE IF res.kind = "entry"
    THEN [acc EXCEPT
            !.completed = @ + 1,
            !.pkg_whls = DictSet(@, EntryKey(res.entry.name, pkg.version),
                                 res.entry)]
  ELSE [acc EXCEPT !.completed = @ + 1,
                   !.failed_packages = Append(@, FailedName(pkg))]

\* The batch loop without its step: the same slice is taken again.
Collect_SameSlice ==
  /\ gmain = "gather"
  /\ \A t \in Batch : tpc[t] = "done"
  /\ gmain' = "batch"
  /\ UNCHANGED <<batch_i, genCollected>>
  /\ UNCHANGED <<genInput, genTasks, genOutput>>

\* The whole collection loop over the batch, in task order (gather returns
\* the results in the order of its arguments).
RECURSIVE CollectFrom(_, _, _)
CollectFrom(acc, t, last) ==
  IF t > last THEN acc
  ELSE CollectFrom(CollectOne(acc, packages[t], result[t]), t + 1, last)

\* gather returns once every task of the batch has ended; the results are
\* collected and the loop goes to the next batch, or is left.
Collect ==
  /\ gmain = "gather"
  /\ \A t \in Batch : tpc[t] = "done"
  /\ IF ~return_exceptions /\ \E t \in Batch : result[t].kind = "exc"
       THEN \* gather re-raises, the finally clause closes the client
            /\ gmain' = "raised"
            /\ UNCHANGED <<batch_i, genCollected>>
       ELSE LET last == IF batch_i + batch_size < Len(packages)
                          THEN batch_i + batch_size ELSE Len(packages)
                acc == CollectFrom([pkg_whls |-> pkg_whls,
                                    failed_packages |-> failed_packages,
                                    completed |-> completed],
                                   batch_i + 1, last)
            IN /\ pkg_whls' = acc.pkg_whls
               /\ failed_packages' = acc.failed_packages
               /\ completed' = acc.completed
               /\ batch_i' = batch_i + batch_size
               /\ gmain' = IF batch_i + batch_size < Len(packages)
                             THEN "batch" ELSE "check"
  /\ UNCHANGED <<genInput, genTasks, genOutput>>

RepodataFiles == {"repodata.json", "repodata.json.bz2", "repodata.json.zst"}

\* json.dumps(repodata_output, indent=2), reduced to the lines of
\* packages.whl: one line per item, with its key and its entry's url.  The
\* text is ASCII (ensure_ascii), so its characters are also the bytes of
\* json_data.encode("utf-8").
RECURSIVE json_dumps(_)
json_dumps(items) ==
  IF items = <<>> THEN <<"{", "\n", "}">>
  ELSE LET rest == json_dumps(SubSeq(items, 1, Len(items) - 1))
           item == items[Len(items)]
       IN SubSeq(rest, 1, Len(rest) - 1)
            \o <<" ", " ", "\"">> \o item.key \o <<"\"", ":", " ">>
            \o <<item.value.url, "\n", "}">>

\* os.linesep: "\n" on POSIX, "\r\n" on Windows.
LineSeps == {<<"\n">>, <<"\r", "\n">>}

\* open(output_file, "w") and f.write(json_data): a file opened in text mode
\* with newline=None writes os.linesep for every "\n".
text_write(data, linesep) ==
  LET newlines == {j \in 1..Len(data) : data[j] = "\n"}
      \* the position of the k-th "\n" of data, 0 for k = 0
      Nth(k) == IF k = 0 THEN 0
                ELSE CHOOSE j \in newlines :
                       Cardinality({q \in newlines : q < j}) = k - 1
      \* what is written for data up to its k-th "\n"
      RECURSIVE UpTo(_)
      UpTo(k) ==
        IF k = 0 THEN <<>>
        ELSE UpTo(k - 1) \o SubSeq(data, Nth(k - 1) + 1, Nth(k) - 1)
               \o linesep
  IN UpTo(Cardinality(newlines))
       \o SubSeq(data, Nth(Cardinality(newlines)) + 1, Len(data))

\* bz2.compress and ZstdCompressor.compress: a lossless coding of the bytes,
\* here their maximal runs of equal bytes.
compress(codec, bytes) ==
  [codec |-> codec,
   length |-> Len(bytes),
   runs |-> {[byte |-> bytes[i], first |-> i] :
               i \in {j \in 1..Len(bytes) :
                        j = 1 \/ bytes[j] # bytes[j - 1]}}]

\* After the loop: SystemExit(1) when failed_packages is not empty, else the
\* document is built from sorted(pkg_whls.items()), written and returned.
Finish ==
  /\ gmain = "check"
  /\ IF failed_packages # <<>>
       THEN /\ gmain' = "exit1"
            /\ UNCHANGED genOutput
       ELSE /\ gmain' = "returned"
            /\ repodata_output' = <<SortedItems(pkg_whls)>>
            /\ written' = RepodataFiles
            /\ \E linesep \in LineSeps,
                  json_data \in {json_dumps(SortedItems(pkg_whls))} :
                 LET json_bytes == json_data
                 IN files' =
                      [n \in RepodataFiles |->
                         CASE n = "repodata.json"
                                -> text_write(json_data, linesep)
                           [] n = "repodata.json.bz2"
                                -> compress("bz2", json_bytes)
                           [] n = "repodata.json.zst"
                                -> compress("zstd", json_bytes)]
  /\ UNCHANGED <<genInput, batch_i, genTasks, genCollected>>

\* ------------------------------------------------ process_requirements
\* The lines a requirements file of the model can hold.
RequirementLines == {"x", "y"}

Workers == 1..Len(requirements)

\* What the finder and its session do for one requirement: find_best_match
\* raises, match.best is None, a best match whose metadata is fetched, or a
\* best match whose metadata request fails (raise_for_status raises).
FinderAnswers == {"find_raises", "no_best", "best", "metadata_error"}

\* build_cache.resolve_requirement: the row, or None; kind "raise" would be
\* an exception leaving the function, which its `except Exception` excludes.
resolve_requirement(requirement, answer) ==
  IF answer = "best"
    THEN [kind |-> "row", url |-> requirement, metadata_text |-> "metadata"]
    ELSE [kind |-> "none", url |-> "", metadata_text |-> ""]

\* INSERT ... ON CONFLICT(url) DO UPDATE on the cache table, kept as the set
\* of its rows.
Upsert(rows, row) ==
  {r \in rows : r.url # row.url}
    \cup {[url |-> row.url, metadata_text |-> row.metadata_text]}

\* process_requirements has created its connection, finder, lock, semaphore
\* and counters, started report_progress and handed one worker per
\* requirement to asyncio.gather.
CacheStart ==
  /\ requirements \in SeqsUpTo(RequirementLines, MaxPkgs)
  /\ bc_concurrency \in 1..MaxConc
  /\ bmain = "gather"
  /\ bc_semaphore = bc_concurrency
  /\ wpc = [i \in Workers |-> "waiting"]
  /\ progress_task = "running"

\* build_cache.py is not the program that runs.
CacheOff ==
  /\ requirements = <<>>
  /\ bc_concurrency = 1
  /\ bmain = "off"
  /\ bc_semaphore = 0
  /\ wpc = <<>>
  /\ progress_task = "cancelled"

CacheLocals ==
  /\ in_progress = {}
  /\ found = 0
  /\ missing = 0
  /\ bc_completed = 0
  /\ cache_rows = {}
  /\ connection = "open"
  /\ committed = FALSE
  /\ reported = <<>>

\* worker enters `async with semaphore`, adds its requirement to in_progress
\* under the lock and hands resolve_requirement to a thread.  (No coroutine
\* awaits while it holds the lock, so the lock is free whenever a coroutine
\* reaches it: each `async with lock` block is one step.)
WorkerStart(i) ==
  /\ bmain \in {"gather", "finally", "raised"}
  /\ wpc[i] = "waiting"
  /\ SemaphoreFree(bc_semaphore)
  /\ bc_semaphore' = bc_semaphore - 1
  /\ in_progress' = in_progress \cup {requirements[i]}
  /\ wpc' = [wpc EXCEPT ![i] = "resolving"]
  /\ UNCHANGED <<cacheInput, bmain, cacheCounters, cache_rows, connection,
                 committed, progress_task, reported>>

\* CountRow with `completed += 1` placed after the early return of the
\* no-match branch.
CountRow_LateCompleted(row, db_ok) ==
  IF row.kind = "none"
    THEN [st |-> "missing", completed |-> bc_completed,
          missing |-> missing + 1, found |-> found, rows |-> cache_rows]
  ELSE IF db_ok
    THEN [st |-> "found", completed |-> bc_completed + 1,
          missing |-> missing, found |-> found + 1,
          rows |-> Upsert(cache_rows, row)]
  ELSE [st |-> "db_error", completed |-> bc_completed + 1,
        missing |-> missing, found |-> found, rows |-> cache_rows]

\* The second `async with lock` block of worker, given the row (or None) of
\* its thread; db_ok: connection.execute does not raise.  st is how the
\* worker ends: "missing", "found" or "db_error" (execute raised).
CountRow(row, db_ok) ==
  IF row.kind = "none"
    THEN [st |-> "missing", completed |-> bc_completed + 1,
          missing |-> missing + 1, found |-> found, rows |-> cache_rows]
  ELSE IF db_ok
    THEN [st |-> "found", completed |-> bc_completed + 1,
          missing |-> missing, found |-> found + 1,
          rows |-> Upsert(cache_rows, row)]
  ELSE [st |-> "db_error", completed |-> bc_completed + 1,
        missing |-> missing, found |-> found, rows |-> cache_rows]

\* The thread of worker i has returned and the worker runs to its end.
\* connection.execute raises on a connection that has been closed.
WorkerFinish(i) ==
  /\ bmain \in {"gather", "finally", "raised"}
  /\ wpc[i] = "resolving"
  /\ bc_semaphore' = bc_semaphore + 1
  /\ \E answer \in FinderAnswers,
        db_ok \in (IF connection = "open" THEN BOOLEAN ELSE {FALSE}) :
       LET row == resolve_requirement(requirements[i], answer)
           c == CountRow(row, db_ok)
       IN IF row.kind = "raise"
            THEN \* the exception leaves worker at `await asyncio.to_thread`
                 /\ wpc' = [wpc EXCEPT ![i] = "raised"]
                 /\ UNCHANGED <<in_progress, cacheCounters, cache_rows>>
            ELSE /\ wpc' = [wpc EXCEPT ![i] = c.st]
                 /\ in_progress' = in_progress \ {requirements[i]}
                 /\ bc_completed' = c.completed
                 /\ missing' = c.missing
                 /\ found' = c.found
                 /\ cache_rows' = c.rows
  /\ UNCHANGED <<cacheInput, bmain, connection, committed, progress_task,
                 reported>>

\* report_progress wakes from asyncio.sleep(5) and prints one line:
\* current = next(iter(in_progress), None).
Report ==
  /\ progress_task = "running"
  /\ \E current \in (IF in_progress = {} THEN {"(idle)"} ELSE in_progress) :
       reported' = <<bc_completed, current>>
  /\ UNCHANGED <<cacheInput, bmain, bc_semaphore, wpc, in_progress,
                 cacheCounters, cache_rows, connection, committed,
                 progress_task>>

\* gather returns: every worker ended without an exception.  The reporter is
\* cancelled and awaited, the transaction committed, and the finally clause
\* closes the session and the connection; (found, missing) is returned.
GatherReturn ==
  /\ bmain = "gather"
  /\ \A i \in Workers : wpc[i] \in {"found", "missing"}
  /\ progress_task' = "cancelled"
  /\ committed' = TRUE
  /\ connection' = "closed"
  /\ bmain' = "returned"
  /\ UNCHANGED <<cacheInput, bc_semaphore, wpc, in_progress, cacheCounters,
                 cache_rows, reported>>

\* GatherRaise without the cancel of the finally clause: the reporter is
\* left running.
GatherRaise_NoCancel ==
  /\ bmain = "gather"
  /\ \E i \in Workers : wpc[i] \in {"db_error", "raised"}
  /\ bmain' = "finally"
  /\ UNCHANGED <<cacheInput, bc_semaphore, wpc, in_progress, cacheCounters,
                 cache_rows, connection, committed, progress_task, reported>>

\* gather re-raises the exception of a worker; the finally clause cancels
\* the reporter and awaits it.
GatherRaise ==
  /\ bmain = "gather"
  /\ \E i \in Workers : wpc[i] \in {"db_error", "raised"}
  /\ progress_task' = "cancelled"
  /\ bmain' = "finally"
  /\ UNCHANGED <<cacheInput, bc_semaphore, wpc, in_progress, cacheCounters,
                 cache_rows, connection, committed, reported>>

\* FinallyClose with connection.commit() moved into the finally clause.
FinallyClose_Commits ==
  /\ bmain = "finally"
  /\ committed' = TRUE
  /\ connection' = "closed"
  /\ bmain' = "raised"
  /\ UNCHANGED <<cacheInput, bc_semaphore, wpc, in_progress, cacheCounters,
                 cache_rows, progress_task, reported>>

\* The rest of the finally clause: session and connection are closed and the
\* exception leaves process_requirements, async_main and the main task.
\* The callbacks the event loop already holds still run before asyncio.run
\* stops the loop: a worker whose thread has answered, or whose semaphore
\* was released, takes its step after this one.
FinallyClose ==
  /\ bmain = "finally"
  /\ connection' = "closed"
  /\ bmain' = "raised"
  /\ UNCHANGED <<cacheInput, bc_semaphore, wpc, in_progress, cacheCounters,
                 cache_rows, committed, progress_task, reported>>

\* asyncio.run cancels the tasks that are still pending after the main task
\* has ended with the exception: each leaves its `async with semaphore`
\* without reaching the second lock block.
CancelPending ==
  /\ bmain = "raised"
  /\ \E i \in Workers : wpc[i] \in {"waiting", "resolving"}
  /\ wpc' = [i \in Workers |->
               IF wpc[i] \in {"waiting", "resolving"} THEN "cancelled"
               ELSE wpc[i]]
  /\ bc_semaphore' =
       bc_semaphore + Cardinality({i \in Workers : wpc[i] = "resolving"})
  /\ UNCHANGED <<cacheInput, bmain, in_progress, cacheCounters, cache_rows,
                 connection, committed, progress_task, reported>>

\* The main task is cancelled while it awaits gather (asyncio.run cancels it
\* on SIGINT).  gather cancels every worker that has not ended, and only
\* then CancelledError reaches process_requirements: its finally clause
\* cancels the reporter, awaits it and closes session and connection.
CancelMain ==
  /\ bmain = "gather"
  /\ \E i \in Workers : wpc[i] \in {"waiting", "resolving"}
  /\ wpc' = [i \in Workers |->
               IF wpc[i] \in {"waiting", "resolving"} THEN "cancelled"
               ELSE wpc[i]]
  /\ bc_semaphore' =
       bc_semaphore + Cardinality({i \in Workers : wpc[i] = "resolving"})
  /\ progress_task' = "cancelled"
  /\ connection' = "closed"
  /\ bmain' = "cancelled"
  /\ UNCHANGED <<cacheInput, in_progress, cacheCounters, cache_rows,
                 committed, reported>>

\* -------------------------------------------- discover_from_names_file
NameLines == {"x", "y"}

Futures == 1..Len(names)

\* What GET /simple/<name>/ gives _fetch_simple_page and
\* _parse_simple_page_for_wheels: no page, a page without wheel files, or a
\* page whose best version has a pure wheel or only platform wheels.
SimplePages ==
  {[kind |-> "unavailable", version |-> <<>>, has_pure |-> FALSE],
   [kind |-> "no_wheels", version |-> <<>>, has_pure |-> FALSE],
   [kind |-> "listing", version |-> <<"2">>, has_pure |-> TRUE],
   [kind |-> "listing", version |-> <<"2">>, has_pure |-> FALSE]}

\* What GET /pypi/<name>/json gives: an error, JSON that is not an object, or
\* a document with (or without, <<>>) info.version whose urls hold a pure
\* wheel, a platform wheel or no wheel.
JsonDocuments ==
  {[kind |-> k, version |-> <<>>, wheel |-> "none"] : k \in {"error", "not_object"}}
  \cup {[kind |-> "document", version |-> v, wheel |-> w] :
          v \in {<<>>, <<"1">>}, w \in {"pure", "platform", "none"}}

NoOutcome == [kind |-> "pending", version |-> <<>>, requests |-> <<>>]

\* fetch_package_version_and_wheels called with use_simple_first = False: the
\* listing is not asked for.
fetch_package_version_and_wheels_json_only(pure, page, doc) ==
  LET has_pure == doc.wheel = "pure"
      has_any_wheel == doc.wheel \in {"pure", "platform"}
      ok == IF pure THEN has_pure ELSE has_any_wheel
      out(k, v) == [kind |-> k, version |-> v, requests |-> <<"json">>]
  IN IF doc.kind = "error" THEN out("none", <<>>)
     ELSE IF doc.kind = "not_object" THEN out("raise", <<>>)
     ELSE IF doc.version = <<>> THEN out("none", <<>>)
     ELSE IF ok THEN out("found", doc.version)
     ELSE out("none", <<>>)

\* discover.fetch_package_version_and_wheels with a client (_fetch_one passes
\* use_simple_first = True then): (version, ok), None, or an exception
\* (data.get on JSON that is not an object, outside the try statement).
\* requests lists the GETs issued: "simple" for /simple/<name>/ and "json"
\* for /pypi/<name>/json.
fetch_package_version_and_wheels(pure, page, doc) ==
  LET page_ok == page.kind = "listing" /\ (IF pure THEN page.has_pure ELSE TRUE)
      has_pure == doc.wheel = "pure"
      has_any_wheel == doc.wheel \in {"pure", "platform"}
      ok == IF pure THEN has_pure ELSE has_any_wheel
      out(k, v) == [kind |-> k, version |-> v,
                    requests |-> <<"simple", "json">>]
  IN IF page_ok
       THEN [kind |-> "found", version |-> page.version,
             requests |-> <<"simple">>]
     ELSE IF doc.kind = "error" THEN out("none", <<>>)
     ELSE IF doc.kind = "not_object" THEN out("raise", <<>>)
     ELSE IF doc.version = <<>> THEN out("none", <<>>)
     ELSE IF ok THEN out("found", doc.version)
     ELSE out("none", <<>>)

\* discover_from_names_file has read the names and submitted one _fetch_one
\* per name to the executor.
DiscStart ==
  /\ names \in SeqsUpTo(NameLines, MaxPkgs)
  /\ workers \in 1..MaxConc
  /\ pure_only \in BOOLEAN
  /\ dmain = "loop"

\* discover.py is not the program that runs.
DiscOff ==
  /\ names = <<>>
  /\ workers = 1
  /\ pure_only = TRUE
  /\ dmain = "off"

DiscLocals ==
  /\ fpc = [f \in Futures |-> "pending"]
  /\ outcome = [f \in Futures |-> NoOutcome]
  /\ done = 0
  /\ results = <<>>

\* A pool thread takes the oldest work item of the executor's queue; the
\* pool has at most max_workers threads.
ThreadStart(f) ==
  /\ dmain = "loop"
  /\ fpc[f] = "pending"
  /\ \A g \in Futures : g < f => fpc[g] # "pending"
  /\ Cardinality({g \in Futures : fpc[g] = "running"}) < workers
  /\ fpc' = [fpc EXCEPT ![f] = "running"]
  /\ UNCHANGED <<discInput, dmain, outcome, done, results>>

\* _fetch_one returns or raises in its thread.
ThreadFinish(f) ==
  /\ fpc[f] = "running"
  /\ \E page \in SimplePages, doc \in JsonDocuments :
       outcome' = [outcome EXCEPT
                     ![f] = fetch_package_version_and_wheels(pure_only, page, doc)]
  /\ fpc' = [fpc EXCEPT ![f] = "finished"]
  /\ UNCHANGED <<discInput, dmain, done, results>>

\* HandleFuture without its except clause.
HandleFuture_NoExcept(name, out) ==
  IF out.kind = "found"
    THEN [results |-> Append(results, <<name, out.version>>), raised |-> FALSE]
    ELSE [results |-> results, raised |-> out.kind = "raise"]

\* The try statement of the as_completed loop: future.result() returns out
\* or raises, and `except Exception: pass` swallows what it raises.
\* raised: an exception leaves the loop.
HandleFuture(name, out) ==
  IF out.kind = "found"
    THEN [results |-> Append(results, <<name, out.version>>), raised |-> FALSE]
    ELSE [results |-> results, raised |-> FALSE]

\* One iteration of `for future in as_completed(futures)`.
MainHandle(f) ==
  /\ dmain = "loop"
  /\ fpc[f] = "finished"
  /\ fpc' = [fpc EXCEPT ![f] = "handled"]
  /\ done' = done + 1
  /\ LET h == HandleFuture(names[f], outcome[f])
     IN /\ results' = h.results
        /\ dmain' = IF h.raised THEN "raised" ELSE dmain
  /\ UNCHANGED <<discInput, outcome>>

\* as_completed is exhausted, the executor shut down, results returned.
DiscoverReturn ==
  /\ dmain = "loop"
  /\ \A f \in Futures : fpc[f] = "handled"
  /\ dmain' = "returned"
  /\ UNCHANGED <<discInput, fpc, outcome, done, results>>

\* ------------------------------------------- load_grayskull_mapping
Calls == 1..MaxCalls

\* A table with an entry that has no "conda_name" and an entry whose key is
\* no normalised name.
WideTable ==
  [k \in {<<"a">>, <<"a", "-">>, <<"b", "-">>, <<"B">>} |->
     IF k = <<"a">> THEN [f \in {"conda_name"} |-> <<"B", "_", "a">>]
     ELSE IF k = <<"a", "-">> THEN [f \in {"conda_name"} |-> <<"a", "_", "B">>]
     ELSE IF k = <<"B">> THEN [f \in {"conda_name"} |-> <<"a", "a">>]
     ELSE [f \in {"import_name"} |-> <<"a">>]]

\* MappingAnswers with an except clause that leaves _MAPPING_CACHE as it was.
MappingAnswers_NoFallback ==
  {[kind |-> "table", cache |-> <<t>>] : t \in {GrayskullTable, WideTable}}
  \cup {[kind |-> "null", cache |-> <<>>],
        [kind |-> "error", cache |-> <<>>]}

\* What the GET of GRAYSKULL_MAPPING_URL and response.json() give: a table,
\* the JSON value null, or an exception (no connection, an error status, a
\* body that is no JSON).
MappingAnswers ==
  {[kind |-> "table", cache |-> <<t>>] : t \in {GrayskullTable, WideTable}}
  \cup {[kind |-> "null", cache |-> <<>>],
        [kind |-> "error", cache |-> <<EmptyTable>>]}

\* What a call has returned; answer is what its client.get was answered
\* with, "cached" when it returned the cache without a request.
NotReturned == [returned |-> FALSE, answer |-> "", cache |-> <<>>]
NoApplication == [fn |-> "", arg |-> <<>>, cache |-> <<>>, result |-> <<>>]

\* No name function is called in the run.
LoadOff ==
  /\ lpc = [c \in Calls |-> "off"]
  /\ lret = [c \in Calls |-> NotReturned]
  /\ fetches = 0
  /\ applied = NoApplication

\* The module has been imported: _MAPPING_CACHE is None and no call of
\* load_grayskull_mapping has begun.
LoadStart ==
  /\ lpc = [c \in Calls |-> "new"]
  /\ lret = [c \in Calls |-> NotReturned]
  /\ fetches = 0
  /\ applied = NoApplication

\* Call c of load_grayskull_mapping runs to its first await: it returns the
\* cache when that is not None, else it issues client.get.
LoadCall(c) ==
  /\ lpc[c] = "new"
  /\ IF MAPPING_CACHE # <<>>
       THEN /\ lpc' = [lpc EXCEPT ![c] = "returned"]
            /\ lret' = [lret EXCEPT
                          ![c] = [returned |-> TRUE, answer |-> "cached",
                                  cache |-> MAPPING_CACHE]]
            /\ UNCHANGED fetches
       ELSE /\ lpc' = [lpc EXCEPT ![c] = "fetching"]
            /\ fetches' = fetches + 1
            /\ UNCHANGED lret
  /\ UNCHANGED <<genVars, cacheVars, discVars, applied>>

\* client.get of call c is answered: _MAPPING_CACHE is assigned
\* response.json(), or {} in the except clause, and returned.
LoadAnswer(c) ==
  /\ lpc[c] = "fetching"
  /\ \E answer \in MappingAnswers :
       /\ MAPPING_CACHE' = answer.cache
       /\ lret' = [lret EXCEPT
                     ![c] = [returned |-> TRUE, answer |-> answer.kind,
                             cache |-> answer.cache]]
  /\ lpc' = [lpc EXCEPT ![c] = "returned"]
  /\ UNCHANGED <<packages, concurrency, gmain, batch_i, genTasks,
                 genCollected, genOutput, genHistory, cacheVars, discVars,
                 fetches, applied>>

\* The names handed to the name functions.
NameChars == {"a", "A", "_", "-"}
Names == SeqsUpTo(NameChars, MaxNameLen)

\* discover.normalize_package_name: name.lower().replace("_", "-")
normalize_package_name(name) ==
  [i \in 1..Len(name) |-> ReplaceUnderscore(Lower(name[i]))]

\* normalize_name(x) is called.
ApplyNormalizeName(x) ==
  /\ applied' = [fn |-> "normalize_name", arg |-> x, cache |-> <<>>,
                 result |-> normalize_name(x)]
  /\ UNCHANGED <<genVars, cacheVars, discVars, lpc, lret, fetches>>

\* normalize_package_name(x) is called.
ApplyNormalizePackageName(x) ==
  /\ applied' = [fn |-> "normalize_package_name", arg |-> x, cache |-> <<>>,
                 result |-> normalize_package_name(x)]
  /\ UNCHANGED <<genVars, cacheVars, discVars, lpc, lret, fetches>>

\* map_package_name(x) is called, with _MAPPING_CACHE as it is.
ApplyMapPackageName(x) ==
  /\ applied' = [fn |-> "map_package_name", arg |-> x,
                 cache |-> MAPPING_CACHE,
                 result |-> map_package_name(MAPPING_CACHE, x)]
  /\ UNCHANGED <<genVars, cacheVars, discVars, lpc, lret, fetches>>

\* The names looked up while load_grayskull_mapping is called: keys of the
\* remote tables and names that normalise to them.
LookupNames == {<<"a">>, <<"B", "_">>, <<"b", "-">>, <<"B">>}

MappingNext ==
  \/ \E c \in Calls : LoadCall(c)
  \/ \E c \in Calls : LoadAnswer(c)
  \/ \E x \in LookupNames : ApplyMapPackageName(x)

MappingInit == GenOff /\ GenLocals /\ CacheOff /\ CacheLocals
                 /\ DiscOff /\ DiscLocals /\ LoadStart

\* The values _MAPPING_CACHE can have when a name function is called.
NameCaches ==
  {<<>>, <<EmptyTable>>, <<GrayskullTable>>, <<WideTable>>}

NamesNext ==
  \/ \E x \in Names : ApplyNormalizeName(x)
  \/ \E x \in Names : ApplyNormalizePackageName(x)
  \/ \E x \in Names : ApplyMapPackageName(x)

NamesInit ==
  /\ packages = <<>>
  /\ concurrency = 1
  /\ MAPPING_CACHE \in NameCaches
  /\ gmain = "off"
  /\ GenLocals /\ CacheOff /\ CacheLocals /\ DiscOff /\ DiscLocals
  /\ LoadOff

\* ------------------------------------------- conversion of one document
\* A second wheel of the same release.
OtherWheelFile ==
  [packagetype |-> "bdist_wheel", url |-> "other-wheel-url",
   filename |-> "a-1-cp3-abi3-linux.whl", sha256 |-> "other-wheel-sha256",
   size |-> 20]

\* The files a release can list, and the lists of them a document can hold.
ReleaseFiles == {SdistFile, WheelFile, OtherWheelFile}
UrlLists == {<<>>} \cup SeqsUpTo(ReleaseFiles, MaxFiles)

\* The requires_dist strings of the model:
\*   "a", "B_a>=1", "a; extra == 'x'", "a ; os_name=='nt'", "extras"
RequiresDist ==
  {<<"a">>,
   <<"B", "_", "a", ">", "=", "1">>,
   <<"a", ";", " ", "e", "x", "t", "r", "a", " ", "=", "=", " ",
     "'", "x", "'">>,
   <<"a", " ", ";", " ", "o", "s", "_", "n", "a", "m", "e", "=", "=",
     "'", "n", "t", "'">>,
   <<"e", "x", "t", "r", "a", "s">>}
DistLists == {<<>>} \cup SeqsUpTo(RequiresDist, MaxDeps)

\* requires_python: None or "" (both falsy), or ">=3"
RequiresPython == {<<>>, <<">", "=", "3">>}

\* The documents pypi_to_repodata_whl_entry is called with.
Documents ==
  {[present |-> TRUE,
    info |-> <<[name |-> <<"a">>, version |-> <<"1">>,
                requires_dist |-> rd, requires_python |-> rp]>>,
    urls |-> u] : rd \in DistLists, rp \in RequiresPython, u \in UrlLists}

\* pypi_to_repodata_whl_entry(pypi_data) is called, once in a run, with
\* _MAPPING_CACHE as it is.
ApplyPypiToRepodataWhlEntry(pypi_data) ==
  /\ applied = NoApplication
  /\ applied' = [fn |-> "pypi_to_repodata_whl_entry", arg |-> pypi_data,
                 cache |-> MAPPING_CACHE,
                 result |-> pypi_to_repodata_whl_entry(MAPPING_CACHE,
                                                       pypi_data)]
  /\ UNCHANGED <<genVars, cacheVars, discVars, lpc, lret, fetches>>

\* parse_packages_file whose name and version keep their surrounding spaces.
parse_packages_file_unstripped(f) ==
  LET RECURSIVE UpTo(_)
      UpTo(n) ==
        IF n = 0 THEN [packages |-> <<>>, warnings |-> <<>>]
        ELSE LET acc == UpTo(n - 1)
                 line == Strip(f[n])
             IN IF line = <<>> \/ Head(line) = "#" THEN acc
                ELSE IF Contains(line, <<"=", "=">>)
                  THEN [acc EXCEPT !.packages =
                          Append(@, [name |-> BeforeFirst(line, <<"=", "=">>),
                                     version |-> AfterFirst(line, <<"=", "=">>)])]
                  ELSE [acc EXCEPT !.warnings = Append(@, n)]
  IN UpTo(Len(f))

\* generate.parse_packages_file, f being the lines of the file: the list
\* returned, and the numbers of the lines reported as "Missing version".
parse_packages_file(f) ==
  LET RECURSIVE UpTo(_)
      UpTo(n) ==
        IF n = 0 THEN [packages |-> <<>>, warnings |-> <<>>]
        ELSE LET acc == UpTo(n - 1)
                 line == Strip(f[n])
             IN IF line = <<>> \/ Head(line) = "#" THEN acc
                ELSE IF Contains(line, <<"=", "=">>)
                  THEN [acc EXCEPT !.packages =
                          Append(@, [name |->
                                       Strip(BeforeFirst(line, <<"=", "=">>)),
                                     version |->
                                       Strip(AfterFirst(line, <<"=", "=">>))])]
                  ELSE [acc EXCEPT !.warnings = Append(@, n)]
  IN UpTo(Len(f))

\* The lines of the model's packages.txt:
\*   "\n", " # a==1\n", "a==1\n", " a == 1 \n", "a\n", "a=1\n", "a==1==2"
PackageLines ==
  {<<"\n">>,
   <<" ", "#", " ", "a", "=", "=", "1", "\n">>,
   <<"a", "=", "=", "1", "\n">>,
   <<" ", "a", " ", "=", "=", " ", "1", " ", "\n">>,
   <<"a", "\n">>,
   <<"a", "=", "1", "\n">>,
   <<"a", "=", "=", "1", "=", "=", "2">>}

\* parse_packages_file(filepath) is called, once in a run.
ApplyParsePackagesFile(f) ==
  /\ applied = NoApplication
  /\ applied' = [fn |-> "parse_packages_file", arg |-> f, cache |-> <<>>,
                 result |-> parse_packages_file(f)]
  /\ UNCHANGED <<genVars, cacheVars, discVars, lpc, lret, fetches>>

EntryNext ==
  \/ /\ applied = NoApplication
     /\ \E pypi_data \in Documents : ApplyPypiToRepodataWhlEntry(pypi_data)
  \/ /\ applied = NoApplication
     /\ \E f \in {<<>>} \cup SeqsUpTo(PackageLines, MaxLines) :
          ApplyParsePackagesFile(f)

EntryInit ==
  /\ packages = <<>>
  /\ concurrency = 1
  /\ MAPPING_CACHE \in MappingCaches
  /\ gmain = "off"
  /\ GenLocals /\ CacheOff /\ CacheLocals /\ DiscOff /\ DiscLocals
  /\ LoadOff

\* ------------------------------------------- the listing of one project
\* discover._version_sort_key: the tuple of the integers of the match of
\* ^(\d+(?:\.\d+)*), (0,) when there is no match.
version_sort_key(v) ==
  LET Digits == {"0", "1", "2", "3", "9"}
      DigitVal(c) == CASE c = "0" -> 0 [] c = "1" -> 1 [] c = "2" -> 2
                       [] c = "3" -> 3 [] c = "9" -> 9
      \* the number of digits from position i on
      RECURSIVE DigitsFrom(_)
      DigitsFrom(i) ==
        IF i > Len(v) \/ v[i] \notin Digits THEN 0 ELSE 1 + DigitsFrom(i + 1)
      \* the end of the match, the match reaching position e already
      RECURSIVE MatchEnd(_)
      MatchEnd(e) ==
        IF e + 1 <= Len(v) /\ v[e + 1] = "." /\ DigitsFrom(e + 2) > 0
          THEN MatchEnd(e + 1 + DigitsFrom(e + 2))
          ELSE e
      RECURSIVE ToInt(_)
      ToInt(d) ==
        IF d = <<>> THEN 0
        ELSE 10 * ToInt(SubSeq(d, 1, Len(d) - 1)) + DigitVal(d[Len(d)])
  IN IF DigitsFrom(1) = 0 THEN <<0>>
     ELSE LET parts == Split(SubSeq(v, 1, MatchEnd(DigitsFrom(1))), ".")
          IN [i \in 1..Len(parts) |-> ToInt(parts[i])]

\* a < b for tuples of integers, as Python compares them
RECURSIVE TupleLess(_, _)
TupleLess(a, b) ==
  IF b = <<>> THEN FALSE
  ELSE IF a = <<>> THEN TRUE
  ELSE IF Head(a) # Head(b) THEN Head(a) < Head(b)
  ELSE TupleLess(Tail(a), Tail(b))

\* by_version where a later filename replaces what is known of its version.
RECURSIVE by_version_overwritten(_, _)
by_version_overwritten(order, n) ==
  IF n = 0 THEN <<>>
  ELSE LET d == by_version_overwritten(order, n - 1)
           fn == order[n]
           parts == Split(SubSeq(fn, 1, Len(fn) - 4), "-")
       IN IF Len(parts) < 5 THEN d
          ELSE LET version == parts[Len(parts) - 3]
                   has_pure == /\ parts[Len(parts) - 1] = <<"n", "o", "n", "e">>
                               /\ parts[Len(parts)] = <<"a", "n", "y">>
                   new == [version |-> version, has_pure |-> has_pure,
                           has_any |-> TRUE]
               IN IF \E i \in 1..Len(d) : d[i].version = version
                    THEN [i \in 1..Len(d) |->
                            IF d[i].version = version THEN new ELSE d[i]]
                    ELSE Append(d, new)

\* The dict by_version after the first n filenames of the iteration over
\* set(whl_filenames), as the sequence of its items in insertion order.
RECURSIVE by_version(_, _)
by_version(order, n) ==
  IF n = 0 THEN <<>>
  ELSE LET d == by_version(order, n - 1)
           fn == order[n]
           parts == Split(SubSeq(fn, 1, Len(fn) - 4), "-")
       IN IF Len(parts) < 5 THEN d
          ELSE LET version == parts[Len(parts) - 3]
                   has_pure == /\ parts[Len(parts) - 1] = <<"n", "o", "n", "e">>
                               /\ parts[Len(parts)] = <<"a", "n", "y">>
               IN IF \E i \in 1..Len(d) : d[i].version = version
                    THEN [i \in 1..Len(d) |->
                            IF d[i].version = version
                              THEN [d[i] EXCEPT !.has_pure = @ \/ has_pure,
                                                !.has_any = TRUE]
                              ELSE d[i]]
                    ELSE Append(d, [version |-> version, has_pure |-> has_pure,
                                    has_any |-> TRUE])

\* max(by_version.keys()) without its key: the strings are compared.
best_version_as_text(d) ==
  CHOOSE i \in 1..Len(d) :
    /\ \A j \in 1..Len(d) : ~StrLess(d[i].version, d[j].version)
    /\ \A j \in 1..(i - 1) : StrLess(d[j].version, d[i].version)

\* Index in by_version of max(by_version.keys(), key=_version_sort_key): the
\* first key, in the order of the dict, that no key exceeds.
best_version(d) ==
  CHOOSE i \in 1..Len(d) :
    /\ \A j \in 1..Len(d) :
         ~TupleLess(version_sort_key(d[i].version),
                    version_sort_key(d[j].version))
    /\ \A j \in 1..(i - 1) :
         TupleLess(version_sort_key(d[j].version),
                   version_sort_key(d[i].version))

\* discover._parse_simple_page_for_wheels, order being the wheel filenames
\* of the page in the order the iteration over set(whl_filenames) takes.
parse_simple_page_for_wheels(order, pure) ==
  LET d == by_version(order, Len(order))
      none == [kind |-> "none", version |-> <<>>]
  IN IF order = <<>> \/ d = <<>> THEN none
     ELSE LET best == d[best_version(d)]
              ok == IF pure THEN best.has_pure ELSE best.has_any
          IN IF ok THEN [kind |-> "found", version |-> best.version]
             ELSE none

\* The version strings of the model: "1.0", "1.9", "1.10", "1.10.post1"
Versions ==
  {<<"1", ".", "0">>, <<"1", ".", "9">>, <<"1", ".", "1", "0">>,
   <<"1", ".", "1", "0", ".", "p", "o", "s", "t", "1">>}

\* The (abi, platform) tags of the model: none-any, none-linux, abi3-linux
AbiPlatforms ==
  {<<<<"n", "o", "n", "e">>, <<"a", "n", "y">>>>,
   <<<<"n", "o", "n", "e">>, <<"l", "i", "n", "u", "x">>>>,
   <<<<"a", "b", "i", "3">>, <<"l", "i", "n", "u", "x">>>>}

\* "a_b-<version>-py3-<abi>-<platform>.whl"
WheelName(version, tags) ==
  <<"a", "_", "b", "-">> \o version \o <<"-", "p", "y", "3", "-">>
    \o tags[1] \o <<"-">> \o tags[2] \o <<".", "w", "h", "l">>

\* The wheel filenames a page of the simple index can list.
WheelNames == {WheelName(v, t) : v \in Versions, t \in AbiPlatforms}

\* The orders in which the iteration over set(whl_filenames) can give the
\* filenames of a page: the order of a set of strings follows their hashes,
\* which differ from one interpreter process to the next.
IterationOrders ==
  {q \in SeqsUpTo(WheelNames, MaxWheels) :
     \A i, j \in 1..Len(q) : i # j => q[i] # q[j]}

\* _parse_simple_page_for_wheels(html, pure_only) is called, once in a run.
ApplyParseSimplePageForWheels(order, pure) ==
  /\ applied = NoApplication
  /\ applied' = [fn |-> "_parse_simple_page_for_wheels",
                 arg |-> [order |-> order, pure_only |-> pure],
                 cache |-> <<>>,
                 result |-> parse_simple_page_for_wheels(order, pure)]
  /\ UNCHANGED <<genVars, cacheVars, discVars, lpc, lret, fetches>>

\* fetch_package_version_and_wheels(name, pure_only, client=client) is called,
\* once in a run, the remote answering with page and doc.
ApplyFetchPackageVersionAndWheels(pure, page, doc) ==
  /\ applied = NoApplication
  /\ applied' = [fn |-> "fetch_package_version_and_wheels",
                 arg |-> [pure_only |-> pure, page |-> page, doc |-> doc],
                 cache |-> <<>>,
                 result |-> fetch_package_version_and_wheels(pure, page, doc)]
  /\ UNCHANGED <<genVars, cacheVars, discVars, lpc, lret, fetches>>

\* discover.py has been imported and none of its functions called.
WheelsInit ==
  /\ packages = <<>>
  /\ concurrency = 1
  /\ MAPPING_CACHE = <<>>
  /\ gmain = "off"
  /\ GenLocals /\ CacheOff /\ CacheLocals /\ DiscOff /\ DiscLocals
  /\ LoadOff

WheelsNext ==
  \/ /\ applied = NoApplication
     /\ \E order \in IterationOrders, pure \in BOOLEAN :
          ApplyParseSimplePageForWheels(order, pure)
  \/ /\ applied = NoApplication
     /\ \E pure \in BOOLEAN, page \in SimplePages, doc \in JsonDocuments :
          ApplyFetchPackageVersionAndWheels(pure, page, doc)

\* ------------------------------------------------------ specifications
\* A step of generate.py that keeps no history.
GenQuiet ==
  /\ response' = NoResponse
  /\ UNCHANGED <<prior_transient, cacheVars, discVars, loadVars>>

IsTransientStatus(resp) == resp.error = "none" /\ resp.status \in {429, 500}

\* FetchReturn, with the answer and what the task made of it recorded.
FetchReturnLogged(t) ==
  \E resp \in Responses(packages[t]), handler_raises \in BOOLEAN :
    /\ FetchReturnWith(t, resp, handler_raises)
    /\ response' = [task |-> t, attempt |-> attempt[t], resp |-> resp,
                    handler_raised |-> (result'[t].kind = "exc"),
                    prior_transient |-> prior_transient[t]]
    /\ prior_transient' =
         [prior_transient EXCEPT
            ![t] = IF tpc'[t] = "sleeping"
                     THEN @ /\ IsTransientStatus(resp) ELSE TRUE]
    /\ UNCHANGED <<cacheVars, discVars, loadVars>>

GenNext ==
  \/ StartBatch /\ GenQuiet
  \/ (\E t \in Tasks : Acquire(t)) /\ GenQuiet
  \/ (\E t \in Tasks : FetchReturn(t)) /\ GenQuiet
  \/ Tick /\ GenQuiet
  \/ (\E t \in Tasks : Wake(t)) /\ GenQuiet
  \/ Collect /\ GenQuiet
  \/ Finish /\ GenQuiet

RetryNext ==
  \/ StartBatch /\ GenQuiet
  \/ (\E t \in Tasks : Acquire(t)) /\ GenQuiet
  \/ \E t \in Tasks : FetchReturnLogged(t)
  \/ Tick /\ GenQuiet
  \/ (\E t \in Tasks : Wake(t)) /\ GenQuiet
  \/ Collect /\ GenQuiet
  \/ Finish /\ GenQuiet

CacheNext ==
  \/ (\E i \in Workers : WorkerStart(i))
       /\ UNCHANGED <<genVars, discVars, loadVars>>
  \/ (\E i \in Workers : WorkerFinish(i))
       /\ UNCHANGED <<genVars, discVars, loadVars>>
  \/ Report /\ UNCHANGED <<genVars, discVars, loadVars>>
  \/ GatherReturn /\ UNCHANGED <<genVars, discVars, loadVars>>
  \/ GatherRaise /\ UNCHANGED <<genVars, discVars, loadVars>>
  \/ FinallyClose /\ UNCHANGED <<genVars, discVars, loadVars>>
  \/ CancelPending /\ UNCHANGED <<genVars, discVars, loadVars>>
  \/ CancelMain /\ UNCHANGED <<genVars, discVars, loadVars>>

DiscNext ==
  \/ (\E f \in Futures : ThreadStart(f))
       /\ UNCHANGED <<genVars, cacheVars, loadVars>>
  \/ (\E f \in Futures : ThreadFinish(f))
       /\ UNCHANGED <<genVars, cacheVars, loadVars>>
  \/ (\E f \in Futures : MainHandle(f))
       /\ UNCHANGED <<genVars, cacheVars, loadVars>>
  \/ DiscoverReturn /\ UNCHANGED <<genVars, cacheVars, loadVars>>

GenInit == GenStart(MaxPkgs) /\ GenLocals /\ CacheOff /\ CacheLocals
             /\ DiscOff /\ DiscLocals /\ LoadOff
RetryInit == GenStart(MaxRetryPkgs) /\ GenLocals /\ CacheOff /\ CacheLocals
               /\ DiscOff /\ DiscLocals /\ LoadOff
CacheInit == GenOff /\ GenLocals /\ CacheStart /\ CacheLocals
               /\ DiscOff /\ DiscLocals /\ LoadOff
DiscInit == GenOff /\ GenLocals /\ CacheOff /\ CacheLocals
              /\ DiscStart /\ DiscLocals /\ LoadOff

Init == GenInit \/ CacheInit \/ DiscInit
Next == GenNext \/ CacheNext \/ DiscNext

\* generate_repodata with concurrency 1 on a list as long as one batch, or
\* longer, of a request for which the remote always has a wheel.
BatchRequest == [name |-> <<"a">>, version |-> <<"1">>]
BatchStart ==
  /\ packages \in {[j \in 1..n |-> BatchRequest] :
                     n \in (MaxBatchPkgs - 1)..MaxBatchPkgs}
  /\ concurrency = 1
  /\ MAPPING_CACHE = <<EmptyTable>>
  /\ gmain = "batch"
BatchInit == BatchStart /\ GenLocals /\ CacheOff /\ CacheLocals
               /\ DiscOff /\ DiscLocals /\ LoadOff

\* client.get of task t is answered with a document that has a wheel.
FetchReturnWheel(t) ==
  FetchReturnWith(t, [error |-> "none", status |-> 200,
                      body |-> WheelBody(packages[t])], FALSE)

BatchNext ==
  \/ StartBatch /\ GenQuiet
  \/ (\E t \in Tasks : Acquire(t)) /\ GenQuiet
  \/ (\E t \in Tasks : FetchReturnWheel(t)) /\ GenQuiet
  \/ Collect /\ GenQuiet
  \/ Finish /\ GenQuiet

\* client.get of task t is answered.  For a list of more than one batch the
\* remote is kept to a document with a wheel, and for the last request of
\* the list to that or a 500.
FetchReturnLive(t) ==
  IF Len(packages) <= MaxRetryPkgs THEN FetchReturn(t)
  ELSE \/ FetchReturnWheel(t)
       \/ /\ t = Len(packages)
          /\ FetchReturnWith(t, [error |-> "none", status |-> 500,
                                 body |-> EmptyBody], FALSE)

LiveNext ==
  \/ StartBatch /\ GenQuiet
  \/ (\E t \in Tasks : Acquire(t)) /\ GenQuiet
  \/ (\E t \in Tasks : FetchReturnLive(t)) /\ GenQuiet
  \/ Tick /\ GenQuiet
  \/ (\E t \in Tasks : Wake(t)) /\ GenQuiet
  \/ Collect /\ GenQuiet
  \/ Finish /\ GenQuiet

\* One run of one of the three programs.
Spec == Init /\ [][Next]_vars

\* generate_repodata on a short list or a list of two batches, under an event loop
\* that runs what is ready, a remote that answers every client.get and a
\* clock that advances: a step that stays possible is taken.
SpecLive == (RetryInit \/ BatchInit) /\ [][LiveNext]_vars /\ WF_vars(LiveNext)
\* Calls of load_grayskull_mapping and of map_package_name in one process.
SpecMapping == MappingInit /\ [][MappingNext]_vars
\* Calls of the name functions, whatever the mapping cache holds.
SpecNames == NamesInit /\ [][NamesNext]_vars

\* The functions of generate.py that convert one input: a document to an
\* entry, the lines of packages.txt to requests.
SpecEntry == EntryInit /\ [][EntryNext]_vars

\* The functions of discover.py that read one project's listing.
SpecWheels == WheelsInit /\ [][WheelsNext]_vars
\* A run of generate_repodata over several batches, or of
\* process_requirements.
SpecDispatch == (BatchInit \/ CacheInit) /\ [][BatchNext \/ CacheNext]_vars
\* generate_repodata alone.
SpecGen == GenInit /\ [][GenNext]_vars
\* generate_repodata on a short list, every answer of the remote recorded.
SpecRetry == RetryInit /\ [][RetryNext]_vars
\* process_requirements alone.
SpecCache == CacheInit /\ [][CacheNext]_vars
\* discover_from_names_file alone.
SpecDisc == DiscInit /\ [][DiscNext]_vars

\* ------------------------------------------------------------- claims
\* Tasks inside the `async with semaphore` block of fetch_with_semaphore.
ActiveFetches == {t \in Tasks : tpc[t] \in {"fetching", "sleeping"}}
\* Workers inside the `async with semaphore` block of worker.
ActiveWorkers == {i \in Workers : wpc[i] = "resolving"}

\* C1: in every reachable state the number of resolutions inside the
\* semaphore-guarded block is at most the concurrency limit, in
\* generate_repodata and in process_requirements.
C1_ConcurrencyCap ==
  /\ Cardinality(ActiveFetches) <= concurrency
  /\ Cardinality(ActiveWorkers) <= bc_concurrency

\* The gate is closed: as many fetches are active as the limit allows and
\* another task waits at the semaphore.
C1_Witness ==
  /\ gmain = "gather"
  /\ Cardinality(ActiveFetches) = concurrency
  /\ \E t \in Tasks : tpc[t] = "waiting"

\* C2: when generate_repodata has ended and some request produced no entry
\* (None, or its task ended with an exception), nothing was written and the
\* run ended with SystemExit(1); files are written only when every request
\* produced an entry.
C2_AllSucceedOrExit ==
  LET no_entry == {t \in Tasks : result[t].kind \in {"none", "exc"}}
  IN /\ (written # {} => \A t \in Tasks : result[t].kind = "entry")
     /\ (gmain \in {"exit1", "returned"} /\ no_entry # {}
           => gmain = "exit1" /\ written = {} /\ repodata_output = <<>>)

\* The requests s and t are distinct and resolved to the same entry key.
SameKey(s, t) ==
  /\ s # t
  /\ packages[s] # packages[t]
  /\ result[s].kind = "entry"
  /\ result[t].kind = "entry"
  /\ EntryKey(result[s].entry.name, packages[s].version)
       = EntryKey(result[t].entry.name, packages[t].version)

\* C3: when two distinct requests resolved to the same entry key, the run
\* does not return a document and writes no file.
C3_DuplicateKeyRefused ==
  (gmain \in {"exit1", "returned"} /\ \E s, t \in Tasks : SameKey(s, t))
    => gmain # "returned" /\ written = {} /\ repodata_output = <<>>

\* The keys of a list of items are strictly ascending.
Ascending(items) ==
  \A j \in 1..(Len(items) - 1) : StrLess(items[j].key, items[j + 1].key)

\* C4: when every request resolved to an entry, the returned packages.whl
\* has one entry per request and ascending keys.
C4_OneEntryPerRequestSorted ==
  (gmain = "returned" /\ \A t \in Tasks : result[t].kind = "entry")
    => /\ Len(repodata_output[1]) = Len(packages)
       /\ Ascending(repodata_output[1])

\* The answer just handled is a failure of the fetch: an HTTP error status,
\* a timeout or an unparseable body.
FetchFailed(r) == RaisesHTTPStatusError(r) \/ r.error \in {"timeout", "json"}

\* C5: no client.get is issued beyond the third attempt of a request; a
\* third answer that has a wheel, after two transient HTTP errors, gives the
\* entry converted from that answer; a third failure ends the request without
\* an entry (None when the handler itself did not fail) and nothing of the
\* request stays in flight.
C5_AtMostThreeAttempts ==
  /\ \A f \in inflight : f[2] < 3
  /\ \A t \in Tasks : tpc[t] \in {"fetching", "sleeping"} => attempt[t] < 3
  /\ (response.task # 0 /\ response.attempt = 2) =>
       LET t == response.task
           conv == pypi_to_repodata_whl_entry(MAPPING_CACHE, response.resp.body)
       IN /\ tpc[t] = "done"
          /\ \A f \in inflight : f[1] # t
          /\ (response.prior_transient /\ ~FetchFailed(response.resp)
                /\ response.resp.body.present /\ conv.kind = "entry")
               => result[t] = conv
          /\ FetchFailed(response.resp) => result[t].kind # "entry"
          /\ (FetchFailed(response.resp) /\ ~response.handler_raised)
               => result[t] = NoneResult

\* Two 429/5xx answers, then a third answer with a wheel, and the task holds
\* an entry.
C5_Witness ==
  /\ response.task # 0
  /\ response.attempt = 2
  /\ response.prior_transient
  /\ response.resp.status = 200
  /\ result[response.task].kind = "entry"

\* C6: an answer that is a 404 or an unparseable body ends the request at
\* once: the task is done without an entry, not sleeping towards a retry.
C6_NonRetryableEndsAtOnce ==
  (response.task # 0
     /\ (response.resp.error = "json"
           \/ (response.resp.error = "none" /\ response.resp.status = 404)))
    => /\ tpc[response.task] = "done"
       /\ result[response.task].kind # "entry"

\* C7: a rate-limited answer, a 5xx answer or a timeout on attempt 1 or 2
\* (whose handler ran without failing itself) is followed by a retry: the
\* task sleeps towards its next attempt.
C7_TransientIsRetried ==
  (response.task # 0 /\ response.attempt < 2 /\ ~response.handler_raised
     /\ (IsTransientStatus(response.resp) \/ response.resp.error = "timeout"))
    => tpc[response.task] = "sleeping"

\* C8: whenever a client.get of attempt a (counted from 0) is issued for a
\* request, no client.get of that request is in flight, and for a > 0 the
\* task was sleeping after its failed attempt a - 1 for at least 2^(a-1)
\* seconds.
C8_RetriesInOrder ==
  [][\A t \in Tasks, a \in 0..3 :
       (<<t, a>> \in inflight' /\ <<t, a>> \notin inflight)
         => /\ \A f \in inflight : f[1] # t
            /\ a > 0 => /\ tpc[t] = "sleeping"
                        /\ attempt[t] = a - 1
                        /\ elapsed[t] >= 2 ^ (a - 1)]_vars

\* The third attempt of a request is in flight.
C8_Witness == \E t \in Tasks : <<t, 2>> \in inflight

\* C9: no failure of a resolution takes a coordinator down.  generate_repodata
\* never leaves its batch loop by an exception and collects every request;
\* process_requirements is only ever aborted by a failed database write, no
\* worker ends with an exception of resolve_requirement, and a run that
\* returns has counted every requirement; discover_from_names_file never
\* leaves its loop by an exception and handles every future.
C9_FailuresAreCaptured ==
  /\ gmain # "raised"
  /\ gmain \in {"check", "exit1", "returned"} => completed = Len(packages)
  /\ \A i \in Workers : wpc[i] # "raised"
  /\ bmain \in {"finally", "raised"} => \E i \in Workers : wpc[i] = "db_error"
  /\ bmain = "returned" => bc_completed = Len(requirements)
  /\ dmain # "raised"
  /\ dmain = "returned" => /\ done = Len(names)
                           /\ \A f \in Futures : fpc[f] = "handled"

\* discover_from_names_file has returned; one future raised, another gave a
\* version that is in the results.
C9_Witness ==
  /\ dmain = "returned"
  /\ \E f \in Futures : outcome[f].kind = "raise"
  /\ \E f \in Futures :
       outcome[f].kind = "found" /\ results # <<>>

\* C10: the counters agree with how the workers ended, at every moment, and
\* when process_requirements returns every requirement is in exactly one of
\* found and missing and completed is their number.
C10_NoResultLostOrDuplicated ==
  LET n_found == Cardinality({i \in Workers : wpc[i] = "found"})
      n_missing == Cardinality({i \in Workers : wpc[i] = "missing"})
      n_db_error == Cardinality({i \in Workers : wpc[i] = "db_error"})
  IN /\ found = n_found
     /\ missing = n_missing
     /\ bc_completed = n_found + n_missing + n_db_error
     /\ bmain = "returned" =>
          /\ bc_completed = Len(requirements)
          /\ found + missing = Len(requirements)
          /\ \A i \in Workers : wpc[i] \in {"found", "missing"}

\* A run with two workers active at once has returned with one requirement
\* found and one missing.
C10_Witness ==
  /\ bmain = "returned"
  /\ bc_concurrency >= 2
  /\ found >= 1
  /\ missing >= 1

\* The number of elements of the sequence q that equal x.
Count(q, x) == Cardinality({j \in 1..Len(q) : q[j] = x})

\* The tasks whose resolution gave no entry.
FailedTasks == {t \in Tasks : result[t].kind \in {"none", "exc"}}

\* C11: once the collection loop of generate_repodata is over, failed_packages
\* has one element per request whose resolution failed (it returned None or
\* its task ended with an exception): its length is the number of failed
\* requests, and the identifier of every failed request is in it as often as
\* the request failed.
C11_EveryFailureRecordedOnce ==
  gmain \in {"check", "exit1", "returned"} =>
    /\ Len(failed_packages) = Cardinality(FailedTasks)
    /\ \A t \in FailedTasks :
         Count(failed_packages, FailedName(packages[t]))
           = Cardinality({u \in FailedTasks : packages[u] = packages[t]})

\* process_requirements has been left: it returned, an exception left it or
\* CancelledError left it.
CacheRunOver == bmain \in {"returned", "raised", "cancelled"}

\* C12: when process_requirements has been left, by return, by an exception
\* or by cancellation, the reporter task is done; and once the reporter is
\* done no step prints a progress line.
C12_ReporterStopped ==
  /\ [](CacheRunOver => progress_task = "cancelled")
  /\ [][progress_task = "cancelled" =>
          progress_task' = "cancelled" /\ reported' = reported]_vars

\* An exception of a worker ended the run while another worker was still
\* resolving, and the reporter had printed a line before.
C12_Witness ==
  /\ bmain = "raised"
  /\ reported # <<>>
  /\ \E i \in Workers : wpc[i] = "cancelled"

\* C13: the transaction is committed only when every worker has ended
\* normally and process_requirements returns; a run that an exception or a
\* cancellation has ended, or is ending, has no commit.
C13_NoPartialCommit ==
  /\ committed => /\ bmain = "returned"
                  /\ \A i \in Workers : wpc[i] \in {"found", "missing"}
  /\ bmain \in {"finally", "raised", "cancelled"} => ~committed
  /\ bmain = "returned" => committed

\* A run was aborted after one requirement had been written to the table.
C13_Witness ==
  /\ bmain \in {"raised", "cancelled"}
  /\ cache_rows # {}
  /\ ~committed

\* C14: once the finally clause has closed the connection after a worker
\* raised, no step changes the aggregate: completed, found, missing and
\* in_progress keep their values and no worker ends by counting its result
\* or by calling connection.execute.
C14_FinalAggregateUntouched ==
  [][(bmain = "raised" /\ connection = "closed") =>
       /\ bc_completed' = bc_completed
       /\ found' = found
       /\ missing' = missing
       /\ cache_rows' = cache_rows
       /\ \A i \in Workers :
            wpc'[i] \in {"found", "missing", "db_error"} => wpc'[i] = wpc[i]]_vars

\* C15: completed never decreases, and whenever the reporter can take the
\* lock, in_progress holds the requirement of every worker that is resolving
\* and no other string, so that it is empty (the reporter prints idle) only
\* when no worker is resolving.
C15_ProgressSnapshotExact ==
  /\ [](progress_task = "running" =>
          /\ in_progress = {requirements[i] : i \in ActiveWorkers}
          /\ (in_progress = {} <=> ActiveWorkers = {}))
  /\ [][bc_completed' >= bc_completed]_vars

\* C16: a fetch_with_semaphore task is created only for an element that has
\* none yet, and when the batch loop is over every element has had its task;
\* a worker hands its requirement to resolve_requirement only once, from
\* waiting, and when process_requirements returns every worker has done so.
C16_DispatchedExactlyOnce ==
  /\ [][\A t \in Tasks :
          (tpc'[t] = "waiting" /\ tpc[t] # "waiting") => tpc[t] = "new"]_vars
  /\ [](gmain \in {"check", "exit1", "returned"}
          => \A t \in Tasks : tpc[t] = "done")
  /\ [][\A i \in Workers :
          /\ (wpc'[i] = "resolving" /\ wpc[i] # "resolving")
               => wpc[i] = "waiting"
          /\ wpc[i] # "waiting" => wpc'[i] # "waiting"]_vars
  /\ [](bmain = "returned"
          => \A i \in Workers : wpc[i] \in {"found", "missing"})

\* The second batch has been started: its task waits, the tasks of the first
\* batch are done.
C16_Witness ==
  /\ gmain = "gather"
  /\ batch_i > 0
  /\ \E t \in Tasks : t > batch_i /\ tpc[t] = "waiting"
  /\ \A t \in Tasks : t <= batch_i => tpc[t] = "done"

\* C17: at most one client.get for the mapping is issued in a process,
\* however the calls of load_grayskull_mapping overlap, and every call that
\* has returned has returned the same table.
C17_MappingFetchedOnce ==
  /\ fetches <= 1
  /\ \A c, d \in Calls :
       (lret[c].returned /\ lret[d].returned) => lret[c].cache = lret[d].cache

\* C18: a call of load_grayskull_mapping whose fetch failed has returned the
\* empty mapping; and when a fetch has failed and no fetch has been answered
\* otherwise, the cache is the empty mapping and map_package_name(x), called
\* at any moment of the run, has given normalize_name(x).
C18_FailedLoadGivesIdentity ==
  /\ \A c \in Calls :
       lret[c].answer = "error"
         => lret[c].returned /\ lret[c].cache = <<EmptyTable>>
  /\ (/\ \E c \in Calls : lret[c].answer = "error"
      /\ \A c \in Calls : lret[c].answer \in {"", "cached", "error"})
       => /\ MAPPING_CACHE = <<EmptyTable>>
          /\ applied.fn = "map_package_name"
               => applied.result = normalize_name(applied.arg)

\* The load failed, and map_package_name was then called with a name that is
\* a key of the remote table and is not normalised.
C18_Witness ==
  /\ \E c \in Calls : lret[c].answer = "error"
  /\ \A c \in Calls : lret[c].answer \in {"", "cached", "error"}
  /\ applied.fn = "map_package_name"
  /\ applied.cache = <<EmptyTable>>
  /\ applied.arg = <<"B", "_">>
  /\ applied.result = <<"b", "-">>

\* C19: map_package_name(x) is the normalised "conda_name" of the table
\* entry whose key is normalize_name(x) when the table has that key, it is
\* normalize_name(x) when the table has no such key or is not loaded, and it
\* is always a fixed point of normalize_name.
C19_MapPackageName ==
  applied.fn = "map_package_name" =>
    LET n == normalize_name(applied.arg)
        table == IF applied.cache = <<>> THEN EmptyTable ELSE applied.cache[1]
    IN /\ (n \in DOMAIN table /\ "conda_name" \in DOMAIN table[n])
            => applied.result = normalize_name(table[n]["conda_name"])
       /\ n \notin DOMAIN table => applied.result = n
       /\ normalize_name(applied.result) = applied.result

\* A name that is no key itself was found through its normal form, and the
\* destination name of the table came back normalised.
C19_Witness ==
  /\ applied.fn = "map_package_name"
  /\ applied.cache = <<WideTable>>
  /\ applied.arg = <<"A", "_">>
  /\ applied.result = <<"a", "-", "b">>

\* Two characters are the same up to letter case and '_' versus '-'.
SameChar(c, d) ==
  \/ c = d
  \/ {c, d} \in {{"A", "a"}, {"B", "b"}, {"_", "-"}}

\* Two names differ only in letter case or in '_' versus '-'.
SameName(x, y) ==
  /\ Len(x) = Len(y)
  /\ \A i \in 1..Len(x) : SameChar(x[i], y[i])

\* C20: normalize_name and normalize_package_name are idempotent, and give
\* the same normal form for every name that differs from the argument only
\* in letter case or in '_' versus '-'.
C20_NormalizeIdempotentInsensitive ==
  /\ applied.fn = "normalize_name" =>
       /\ normalize_name(applied.result) = applied.result
       /\ \A y \in Names :
            SameName(applied.arg, y) => normalize_name(y) = applied.result
  /\ applied.fn = "normalize_package_name" =>
       /\ normalize_package_name(applied.result) = applied.result
       /\ \A y \in Names :
            SameName(applied.arg, y)
              => normalize_package_name(y) = applied.result

\* A name with an upper-case letter and an underscore has been normalised.
C20_Witness ==
  /\ applied.fn = "normalize_package_name"
  /\ applied.arg = <<"A", "_", "a">>
  /\ applied.result = <<"a", "-", "a">>
\* The call of pypi_to_repodata_whl_entry that has returned an entry.
Converted ==
  /\ applied.fn = "pypi_to_repodata_whl_entry"
  /\ applied.result.kind = "entry"

\* The file of the document the entry was built from.
SelectedWheel ==
  applied.arg.urls[CHOOSE i \in 1..Len(applied.arg.urls) :
                     /\ applied.arg.urls[i].packagetype = "bdist_wheel"
                     /\ \A j \in 1..(i - 1) :
                          applied.arg.urls[j].packagetype # "bdist_wheel"]

RequiredFields ==
  {"url", "record_version", "name", "version", "build", "build_number",
   "depends", "fn", "sha256", "size", "subdir", "noarch"}

\* C21: every entry produced by pypi_to_repodata_whl_entry has the fields
\* url, record_version, name, version, build, build_number, depends, fn,
\* sha256, size, subdir and noarch; fn is the filename of the selected
\* wheel, subdir is "noarch" and noarch is "python".
C21_EntryHasRequiredFields ==
  Converted =>
    /\ RequiredFields \subseteq DOMAIN applied.result.entry
    /\ applied.result.entry.fn = SelectedWheel.filename
    /\ applied.result.entry.subdir = "noarch"
    /\ applied.result.entry.noarch = "python"

\* A dependency marked as belonging to an optional extra: its environment
\* marker, the text after the first ';', names extra.
MarkedExtra(dep) ==
  /\ Contains(dep, <<";">>)
  /\ Contains(AfterFirst(dep, <<";">>), ExtraWord)

\* The dependency with its marker suffix removed, under its conda name.
Unmarked(cache, dep) ==
  map_dependency_name(cache, Strip(BeforeFirst(dep, <<";">>)))

\* C22: depends holds, in the original order, one element for each declared
\* dependency that is not marked as belonging to an optional extra, its
\* marker suffix removed, and no other, followed by "python
\* <requires_python>" exactly when requires_python is declared.
C22_DependsList ==
  Converted =>
    LET info == applied.arg.info[1]
        kept == SelectSeq(info.requires_dist, LAMBDA d : ~MarkedExtra(d))
        tail == IF info.requires_python = <<>> THEN <<>>
                ELSE <<PythonWord \o info.requires_python>>
        depends == applied.result.entry.depends
    IN /\ depends = [i \in 1..Len(kept) |-> Unmarked(applied.cache, kept[i])]
                       \o tail
       /\ Len(depends) = Len(kept) + Len(tail)

\* C23: the entry is built from the first element of urls whose packagetype
\* is bdist_wheel (url, sha256 and size are that element's), and the
\* conversion returns None when urls has no such element.
C23_FirstWheelSelected ==
  applied.fn = "pypi_to_repodata_whl_entry" =>
    IF \E i \in 1..Len(applied.arg.urls) :
         applied.arg.urls[i].packagetype = "bdist_wheel"
      THEN /\ applied.result.kind = "entry"
           /\ applied.result.entry.url = SelectedWheel.url
           /\ applied.result.entry.sha256 = SelectedWheel.sha256
           /\ applied.result.entry.size = SelectedWheel.size
      ELSE applied.result.kind = "none"

\* Two wheels are listed after a source distribution or after one another,
\* and the entry has been built.
C23_Witness ==
  /\ Converted
  /\ applied.arg.urls = <<OtherWheelFile, WheelFile>>
  /\ applied.result.entry.url = "other-wheel-url"

\* The call of _parse_simple_page_for_wheels of the run.
Parsed == applied.fn = "_parse_simple_page_for_wheels"

\* The version strings of the filenames the page lists.
ListedVersions ==
  {v \in Versions :
     \E i \in 1..Len(applied.arg.order), t \in AbiPlatforms :
       applied.arg.order[i] = WheelName(v, t)}

\* The leading dot-separated numeric run of the model's versions, as integers.
NumericTuple(v) ==
  CASE v = <<"1", ".", "0">> -> <<1, 0>>
    [] v = <<"1", ".", "9">> -> <<1, 9>>
    [] v = <<"1", ".", "1", "0">> -> <<1, 10>>
    [] v = <<"1", ".", "1", "0", ".", "p", "o", "s", "t", "1">> -> <<1, 10>>

\* C24: the version selected from a listing is one whose tuple of the
\* integers of its leading numeric run is not below that of any listed
\* version; from 1.0, 1.9 and 1.10 it is 1.10.
C24_NumericBestVersion ==
  (Parsed /\ applied.result.kind = "found") =>
    /\ applied.result.version \in ListedVersions
    /\ \A v \in ListedVersions :
         ~TupleLess(NumericTuple(applied.result.version), NumericTuple(v))
    /\ ListedVersions
         = {<<"1", ".", "0">>, <<"1", ".", "9">>, <<"1", ".", "1", "0">>}
       => applied.result.version = <<"1", ".", "1", "0">>

\* 1.0, 1.9 and 1.10 are listed, 1.9 last, and 1.10 is selected.
C24_Witness ==
  /\ Parsed
  /\ Len(applied.arg.order) = 3
  /\ ListedVersions
       = {<<"1", ".", "0">>, <<"1", ".", "9">>, <<"1", ".", "1", "0">>}
  /\ \E t \in AbiPlatforms :
       applied.arg.order[3] = WheelName(<<"1", ".", "9">>, t)
  /\ applied.result = [kind |-> "found", version |-> <<"1", ".", "1", "0">>]

\* C25: a filename name-version-pyTag-abiTag-platTag.whl is parsed to its
\* version, it is pure exactly when its abi tag is none and its platform
\* tag is any, and a version has a pure wheel exactly when at least one of
\* its filenames is pure.
C25_PureWheelDetection ==
  Parsed =>
    LET order == applied.arg.order
        d == by_version(order, Len(order))
        IsPure(t) == t = <<<<"n", "o", "n", "e">>, <<"a", "n", "y">>>>
    IN /\ {d[i].version : i \in 1..Len(d)} = ListedVersions
       /\ \A i \in 1..Len(d) :
            d[i].has_pure <=>
              \E k \in 1..Len(order), t \in AbiPlatforms :
                order[k] = WheelName(d[i].version, t) /\ IsPure(t)
       /\ \A top \in ListedVersions :
            (/\ applied.arg.pure_only
             /\ \A v \in ListedVersions \ {top} :
                  TupleLess(NumericTuple(v), NumericTuple(top)))
            => (applied.result.kind = "found" <=>
                  \E k \in 1..Len(order), t \in AbiPlatforms :
                    order[k] = WheelName(top, t) /\ IsPure(t))

\* A version is listed with a pure wheel and then with a none-linux wheel,
\* and is found under the pure-only policy.
C25_Witness ==
  /\ Parsed
  /\ applied.arg.pure_only
  /\ applied.arg.order
       = <<WheelName(<<"1", ".", "9">>,
                     <<<<"n", "o", "n", "e">>, <<"a", "n", "y">>>>),
           WheelName(<<"1", ".", "9">>,
                     <<<<"n", "o", "n", "e">>, <<"l", "i", "n", "u", "x">>>>)>>
  /\ applied.result = [kind |-> "found", version |-> <<"1", ".", "9">>]

\* The call of fetch_package_version_and_wheels of the run.
Fetched == applied.fn = "fetch_package_version_and_wheels"

\* The wheel policy holds of the listing's best version.
ListingSatisfies ==
  /\ applied.arg.page.kind = "listing"
  /\ applied.arg.pure_only => applied.arg.page.has_pure

\* The wheel policy holds of the files of the JSON document.
DocumentSatisfies ==
  /\ applied.arg.doc.kind = "document"
  /\ IF applied.arg.pure_only THEN applied.arg.doc.wheel = "pure"
     ELSE applied.arg.doc.wheel \in {"pure", "platform"}

\* C28: when the listing is available and its best version satisfies the
\* wheel policy, fetch_package_version_and_wheels returns that version and
\* issues no JSON fetch; otherwise it fetches the JSON document and returns
\* that document's version only if the policy is satisfied there, and no
\* result when it is not.
C28_ListingBeforeJson ==
  Fetched =>
    IF ListingSatisfies
      THEN /\ applied.result.kind = "found"
           /\ applied.result.version = applied.arg.page.version
           /\ applied.result.requests = <<"simple">>
      ELSE /\ applied.result.requests = <<"simple", "json">>
           /\ applied.result.kind = "found" =>
                /\ DocumentSatisfies
                /\ applied.result.version = applied.arg.doc.version
           /\ (applied.arg.doc.kind = "document" /\ ~DocumentSatisfies) =>
                applied.result.kind = "none"

\* Both the listing and the document satisfy the policy with different
\* versions, and the listing's version is returned.
C28_Witness ==
  /\ Fetched
  /\ ListingSatisfies
  /\ DocumentSatisfies
  /\ applied.arg.doc.version # <<>>
  /\ applied.arg.doc.version # applied.arg.page.version
  /\ applied.result.version = applied.arg.page.version

\* C29: the selection from a listing does not depend on the order in which
\* the filenames are iterated, also when two listed versions have the same
\* leading numeric tuple (1.10 and 1.10.post1).
C29_SelectionOrderIndependent ==
  Parsed =>
    \A other \in IterationOrders :
      {other[i] : i \in 1..Len(other)}
        = {applied.arg.order[i] : i \in 1..Len(applied.arg.order)}
      => parse_simple_page_for_wheels(other, applied.arg.pure_only)
           = applied.result

\* The pair the specification of packages.txt gives a line of the model, as
\* a sequence of no or one pair.
PairOfLine(line) ==
  CASE line = <<"a", "=", "=", "1", "\n">>
         -> <<[name |-> <<"a">>, version |-> <<"1">>]>>
    [] line = <<" ", "a", " ", "=", "=", " ", "1", " ", "\n">>
         -> <<[name |-> <<"a">>, version |-> <<"1">>]>>
    [] line = <<"a", "=", "=", "1", "=", "=", "2">>
         -> <<[name |-> <<"a">>, version |-> <<"1", "=", "=", "2">>]>>
    [] OTHER -> <<>>

\* The lines that are neither blank nor comments and have no "==".
Unversioned == {<<"a", "\n">>, <<"a", "=", "1", "\n">>}

RECURSIVE PairsOfLines(_)
PairsOfLines(f) ==
  IF f = <<>> THEN <<>> ELSE PairOfLine(Head(f)) \o PairsOfLines(Tail(f))

\* C27: parse_packages_file returns, in file order, exactly one (name,
\* version) pair for each line that is neither blank nor a '#' comment and
\* contains '==': the stripped text before and after the first '=='.  Blank
\* and comment lines are skipped silently, a line without '==' is skipped
\* with a "Missing version" warning.
C27_ParsePackagesFile ==
  applied.fn = "parse_packages_file" =>
    /\ applied.result.packages = PairsOfLines(applied.arg)
    /\ {applied.result.warnings[i] : i \in 1..Len(applied.result.warnings)}
         = {n \in 1..Len(applied.arg) : applied.arg[n] \in Unversioned}

\* A file of a comment, a line without version and a padded request has
\* been parsed to one pair and one warning.
C27_Witness ==
  /\ applied.fn = "parse_packages_file"
  /\ applied.arg = << <<" ", "#", " ", "a", "=", "=", "1", "\n">>,
                      <<"a", "\n">>,
                      <<" ", "a", " ", "=", "=", " ", "1", " ", "\n">> >>
  /\ applied.result = [packages |-> <<[name |-> <<"a">>, version |-> <<"1">>]>>,
                       warnings |-> <<2>>]

\* bz2.decompress and ZstdDecompressor.decompress of a file's content.
decompress(file) ==
  [p \in 1..file.length |->
     (CHOOSE r \in file.runs :
        /\ r.first <= p
        /\ \A q \in file.runs : q.first <= p => q.first <= r.first).byte]

\* C26: the document is serialised once; the bytes of repodata.json equal
\* that serialisation, and decompressing repodata.json.bz2 and
\* repodata.json.zst each gives exactly the same bytes.
C26_OneSerialisation ==
  gmain = "returned" =>
    LET json_bytes == json_dumps(repodata_output[1])
    IN /\ files["repodata.json"] = json_bytes
       /\ decompress(files["repodata.json.bz2"]) = json_bytes
       /\ decompress(files["repodata.json.zst"]) = json_bytes

\* C30: each key of packages.whl is "<name>-<version>-<build>" of the fields
\* of its own entry; in particular the version in the key, taken from the
\* request, equals the entry's version field, taken from the metadata.
C30_KeyMatchesEntry ==
  gmain = "returned" =>
    \A i \in 1..Len(repodata_output[1]) :
      LET item == repodata_output[1][i]
      IN item.key = item.value.name \o <<"-">> \o item.value.version
                      \o <<"-">> \o item.value.build

\* The filenames of the model's files whose abi tag is none and whose
\* platform tag is any.
PureFilenames == {"a-1-py3-none-any.whl"}

\* C31: every entry with build "py3_none_any_0", subdir "noarch" and noarch
\* "python" is derived from a pure wheel: the file selected by
\* pypi_to_repodata_whl_entry has abi tag none and platform tag any, and a
\* document whose only wheels are platform-specific gives no entry.
C31_EntryFromPureWheel ==
  applied.fn = "pypi_to_repodata_whl_entry" =>
    /\ (/\ applied.result.kind = "entry"
        /\ applied.result.entry.build = Build
        /\ applied.result.entry.subdir = "noarch"
        /\ applied.result.entry.noarch = "python")
       => SelectedWheel.filename \in PureFilenames
    /\ (\A i \in 1..Len(applied.arg.urls) :
          applied.arg.urls[i].packagetype = "bdist_wheel"
            => applied.arg.urls[i].filename \notin PureFilenames)
       => applied.result.kind # "entry"

\* C32: generate_repodata terminates when every remote call returns or
\* fails.  The client.get calls of a request are numbered 0, 1, 2 and issued
\* in that order, so there are at most 3; no task of a batch has been started
\* while a task of an earlier batch is not finished; a run that has ended has
\* either written the three files or left with SystemExit(1) having written
\* none; and every run ends.
C32_Terminates ==
  /\ [][\A t \in Tasks, a \in 0..3 :
          (<<t, a>> \in inflight' /\ <<t, a>> \notin inflight)
            => /\ a < 3
               /\ a = IF tpc[t] = "waiting" THEN 0 ELSE attempt[t] + 1]_vars
  /\ [][\A t \in Tasks :
          (tpc[t] = "done" => tpc'[t] = "done")
          /\ (tpc[t] \notin {"new", "waiting"} => tpc'[t] # "waiting")]_vars
  /\ [](\A u, t \in Tasks :
          ((u - 1) \div batch_size < (t - 1) \div batch_size /\ tpc[t] # "new")
            => tpc[u] = "done")
  /\ [](/\ gmain = "returned" => written = RepodataFiles
        /\ gmain = "exit1" => written = {}
        /\ gmain \in {"returned", "exit1"} =>
             /\ \A t \in Tasks : tpc[t] = "done"
             /\ inflight = {})
  /\ <>[](gmain \in {"returned", "exit1"})

\* A list of two batches has been processed, a request of it used its three
\* fetches, and the run has ended with SystemExit(1).
C32_Witness ==
  /\ gmain = "exit1"
  /\ Len(packages) > batch_size
  /\ batch_i >= Len(packages)
  /\ failed_packages # <<>>
  /\ written = {}

====
